---- MODULE Spec2Model ----
(***************************************************************************)
(* Model of StreamingToolParser (crates/g3-core/src/streaming_parser.rs).  *)
(*                                                                         *)
(* Text is a sequence of one-character strings.  Offsets are 0-based, as   *)
(* the byte offsets of the Rust code (the alphabet of the model is ASCII,  *)
(* so byte and scalar offsets coincide).  Option<T> is a sequence of       *)
(* length at most one: None == <<>>, Some(x) == <<x>>.                     *)
(*                                                                         *)
(* A local variable of the code that is read more than once is the         *)
(* parameter of an operator that holds the rest of the function body, so   *)
(* that each value is computed where the code computes it.                 *)
(***************************************************************************)
EXTENDS Integers, Sequences, FiniteSets, TLC

None == <<>>
Some(x) == <<x>>
IsSome(o) == Len(o) = 1
Unwrap(o) == o[1]

Min(S) == CHOOSE x \in S : \A y \in S : x <= y
Max(S) == CHOOSE x \in S : \A y \in S : x >= y
MinOrNone(S) == IF S = {} THEN None ELSE Some(Min(S))
MaxOrNone(S) == IF S = {} THEN None ELSE Some(Max(S))

(***************************************************************************)
(* str primitives of the Rust standard library, as the code uses them.     *)
(***************************************************************************)
\* &text[a..b]
Slice(text, a, b) == SubSeq(text, a + 1, b)
\* &text[a..]
SliceFrom(text, a) == SubSeq(text, a + 1, Len(text))
\* text[i..].starts_with(pat)
StartsWithAt(text, pat, i) ==
    /\ i + Len(pat) <= Len(text)
    /\ \A k \in 1..Len(pat) : text[i + k] = pat[k]
\* the offsets at which pat occurs in text
Occurrences(text, pat) == {i \in 0..(Len(text) - Len(pat)) : StartsWithAt(text, pat, i)}
\* str::find
find(text, pat) == MinOrNone(Occurrences(text, pat))
\* str::contains
contains(text, pat) == \E i \in 0..(Len(text) - Len(pat)) : StartsWithAt(text, pat, i)
\* char::is_whitespace, on the alphabet of the model
is_whitespace(c) == c \in {" ", "\n", "\t", "\r"}
\* str::trim
RECURSIVE trim_start(_)
trim_start(text) ==
    IF text # <<>> /\ is_whitespace(Head(text)) THEN trim_start(Tail(text)) ELSE text
RECURSIVE trim_end(_)
trim_end(text) ==
    IF text # <<>> /\ is_whitespace(text[Len(text)])
    THEN trim_end(SubSeq(text, 1, Len(text) - 1))
    ELSE text
trim(text) == trim_end(trim_start(text))
\* str::replace: non-overlapping matches, left to right
RECURSIVE replace(_, _, _)
replace(text, from, to) ==
    IF text = <<>> THEN <<>>
    ELSE IF StartsWithAt(text, from, 0)
         THEN to \o replace(SliceFrom(text, Len(from)), from, to)
         ELSE <<Head(text)>> \o replace(Tail(text), from, to)

(***************************************************************************)
(* serde_json values.  A value is [t |-> type, v |-> payload]; the payload *)
(* of an object is a function from keys (texts) to values, as              *)
(* serde_json::Map keeps one value per key, the last one written.          *)
(***************************************************************************)
JNull == [t |-> "null", v |-> <<>>]
JBool(b) == [t |-> "bool", v |-> b]
JString(s) == [t |-> "string", v |-> s]
JArray(a) == [t |-> "array", v |-> a]
JObject(m) == [t |-> "object", v |-> m]
EmptyMap == [k \in {} |-> JNull]
MapInsert(m, key, val) == [k \in (DOMAIN m) \cup {key} |-> IF k = key THEN val ELSE m[k]]
\* Value::as_object().is_some()
is_object(val) == val.t = "object"

(***************************************************************************)
(* serde_json::from_str: a recursive-descent reader.  Positions inside the *)
(* reader are 1-based indexes of the next character to read.  A result is  *)
(* [ok, v, p]: success, the value read, the index after it.  The texts of  *)
(* the model hold no digit and no backslash followed by 'u', so that no    *)
(* number and no \u escape can occur in a text.                            *)
(***************************************************************************)
Fail == [ok |-> FALSE, v |-> <<>>, p |-> 0]
Ok(val, pos) == [ok |-> TRUE, v |-> val, p |-> pos]
JsonWs == {" ", "\n", "\t", "\r"}
\* the single-character escapes of a JSON string and the character each stands for
Escapes == [c \in {"\"", "\\", "/", "n", "t", "r"} |->
              CASE c = "n" -> "\n" [] c = "t" -> "\t" [] c = "r" -> "\r" [] OTHER -> c]
ControlChars == {"\n", "\t", "\r"}

RECURSIVE SkipWs(_, _)
SkipWs(s, i) == IF i <= Len(s) /\ s[i] \in JsonWs THEN SkipWs(s, i + 1) ELSE i

\* the characters of a string after its opening quote, up to the closing quote
RECURSIVE ParseStringBody(_, _, _)
ParseStringBody(s, i, acc) ==
    IF i > Len(s) THEN Fail
    ELSE IF s[i] = "\"" THEN Ok(acc, i + 1)
    ELSE IF s[i] = "\\"
         THEN IF i + 1 <= Len(s) /\ s[i + 1] \in DOMAIN Escapes
              THEN ParseStringBody(s, i + 2, Append(acc, Escapes[s[i + 1]]))
              ELSE Fail
    ELSE IF s[i] \in ControlChars THEN Fail
    ELSE ParseStringBody(s, i + 1, Append(acc, s[i]))

\* true, false, null
MatchLiteral(s, i, lit, val) ==
    IF StartsWithAt(s, lit, i - 1) THEN Ok(val, i + Len(lit)) ELSE Fail

RECURSIVE ParseValue(_, _)
RECURSIVE ParseMembers(_, _, _)
RECURSIVE ParseElements(_, _, _)

\* after a member, at index n: '}' ends the object, ',' starts the next member
MemberEnd(s, n, acc) ==
    IF n > Len(s) THEN Fail
    ELSE IF s[n] = "}" THEN Ok(acc, n + 1)
    ELSE IF s[n] = "," THEN ParseMembers(s, SkipWs(s, n + 1), acc)
    ELSE Fail
\* val is the result of reading the value of the member named key
MemberValue(s, acc, key, val) ==
    IF ~val.ok THEN Fail
    ELSE MemberEnd(s, SkipWs(s, val.p), Append(acc, <<key, val.v>>))
\* c is the index after the key and the whitespace that follows it
MemberColon(s, acc, key, c) ==
    IF c > Len(s) \/ s[c] # ":" THEN Fail
    ELSE MemberValue(s, acc, key, ParseValue(s, SkipWs(s, c + 1)))
\* key is the result of reading the key
MemberKey(s, acc, key) ==
    IF ~key.ok THEN Fail ELSE MemberColon(s, acc, key.v, SkipWs(s, key.p))
\* the members of an object from index i on: the (key, value) pairs in the
\* order of the text, duplicates included
ParseMembers(s, i, acc) ==
    IF i > Len(s) \/ s[i] # "\"" THEN Fail
    ELSE MemberKey(s, acc, ParseStringBody(s, i + 1, <<>>))

\* j is the index after '{' and the whitespace that follows it
ParseObjectAt(s, j) ==
    IF j <= Len(s) /\ s[j] = "}" THEN Ok(<<>>, j + 1) ELSE ParseMembers(s, j, <<>>)
\* an object starting with the '{' at index i: its members in text order
ParseObject(s, i) == ParseObjectAt(s, SkipWs(s, i + 1))

\* after an element, at index n: ']' ends the array, ',' starts the next element
ElementEnd(s, n, acc) ==
    IF n > Len(s) THEN Fail
    ELSE IF s[n] = "]" THEN Ok(acc, n + 1)
    ELSE IF s[n] = "," THEN ParseElements(s, SkipWs(s, n + 1), acc)
    ELSE Fail
ElementValue(s, acc, val) ==
    IF ~val.ok THEN Fail ELSE ElementEnd(s, SkipWs(s, val.p), Append(acc, val.v))
ParseElements(s, i, acc) == ElementValue(s, acc, ParseValue(s, i))
\* j is the index after '[' and the whitespace that follows it
ParseArrayAt(s, j) ==
    IF j <= Len(s) /\ s[j] = "]" THEN Ok(<<>>, j + 1) ELSE ParseElements(s, j, <<>>)

\* the map of the members read: a later member replaces an earlier one of its key
RECURSIVE MapOf(_)
MapOf(pairs) ==
    IF pairs = <<>> THEN EmptyMap
    ELSE MapInsert(MapOf(SubSeq(pairs, 1, Len(pairs) - 1)),
                   pairs[Len(pairs)][1], pairs[Len(pairs)][2])

StringValue(r) == IF r.ok THEN Ok(JString(r.v), r.p) ELSE Fail
ObjectValue(r) == IF r.ok THEN Ok(JObject(MapOf(r.v)), r.p) ELSE Fail
ArrayValue(r) == IF r.ok THEN Ok(JArray(r.v), r.p) ELSE Fail

\* one JSON value starting at index i (whitespace already skipped)
ParseValue(s, i) ==
    IF i > Len(s) THEN Fail
    ELSE CASE s[i] = "\"" -> StringValue(ParseStringBody(s, i + 1, <<>>))
           [] s[i] = "{" -> ObjectValue(ParseObject(s, i))
           [] s[i] = "[" -> ArrayValue(ParseArrayAt(s, SkipWs(s, i + 1)))
           [] s[i] = "t" -> MatchLiteral(s, i, <<"t", "r", "u", "e">>, JBool(TRUE))
           [] s[i] = "f" -> MatchLiteral(s, i, <<"f", "a", "l", "s", "e">>, JBool(FALSE))
           [] s[i] = "n" -> MatchLiteral(s, i, <<"n", "u", "l", "l">>, JNull)
           [] OTHER -> Fail

\* the value read, if nothing but whitespace follows it
WholeText(s, r) == IF r.ok /\ SkipWs(s, r.p) > Len(s) THEN Some(r.v) ELSE None

\* serde_json::from_str::<serde_json::Value>
from_str_Value(s) == WholeText(s, ParseValue(s, SkipWs(s, 1)))

\* the positions of the members named key
FieldIndexes(pairs, key) == {k \in 1..Len(pairs) : pairs[k][1] = key}
ToolKey == <<"t", "o", "o", "l">>
ArgsKey == <<"a", "r", "g", "s">>

\* tool: String must be a JSON string; args: Value is any value
ToolCallOf(tool, args) ==
    IF tool.t # "string" THEN None ELSE Some([tool |-> tool.v, args |-> args])
\* the derived Deserialize of struct ToolCall { tool: String, args: Value }: a
\* missing or a duplicate field is an error, other members are ignored
ToolCallFields(pairs, tools, argss) ==
    IF Cardinality(tools) # 1 \/ Cardinality(argss) # 1 THEN None
    ELSE ToolCallOf(pairs[Min(tools)][2], pairs[Min(argss)][2])
ToolCallMembers(members) ==
    IF members = None THEN None
    ELSE ToolCallFields(Unwrap(members),
                        FieldIndexes(Unwrap(members), ToolKey),
                        FieldIndexes(Unwrap(members), ArgsKey))
\* the text is read as a map: i is the index of its first character that is
\* not whitespace
ToolCallAt(s, i) ==
    ToolCallMembers(WholeText(s, IF i <= Len(s) /\ s[i] = "{" THEN ParseObject(s, i) ELSE Fail))

\* serde_json::from_str::<ToolCall>
from_str_ToolCall(s) == ToolCallAt(s, SkipWs(s, 1))

(***************************************************************************)
(* StreamingToolParser: constants and pure scanning functions.             *)
(***************************************************************************)
TOOL_CALL_PATTERNS == <<
    <<"{", "\"", "t", "o", "o", "l", "\"", ":">>,
    <<"{", " ", "\"", "t", "o", "o", "l", "\"", ":">>,
    <<"{", "\"", "t", "o", "o", "l", "\"", " ", ":">>,
    <<"{", " ", "\"", "t", "o", "o", "l", "\"", " ", ":">> >>

XML_TOOL_CALL_PATTERNS == <<
    <<"<", "i", "n", "v", "o", "k", "e", " ", "n", "a", "m", "e", "=">>,
    <<"<", "i", "n", "v", "o", "k", "e", ">">>,
    <<"<", "t", "o", "o", "l", " ", "n", "a", "m", "e", "=">> >>

PROSE_MARKERS == {
    <<"I", "'", "l", "l">>,
    <<"L", "e", "t", " ", "m", "e">>,
    <<"H", "e", "r", "e", "'", "s">>,
    <<"I", " ", "c", "a", "n">>,
    <<"I", " ", "n", "e", "e", "d">>,
    <<"F", "i", "r", "s", "t">>,
    <<"N", "o", "w">>,
    <<"T", "h", "e", " ">> }

MaxKeyLen == 100

\* the offsets at which some pattern of the list starts in text
PatternStarts(text, patterns) ==
    UNION {Occurrences(text, patterns[k]) : k \in 1..Len(patterns)}

\* the loop keeps the largest of the per-pattern rfind results: the last offset
\* at which any pattern starts
find_last_tool_call_start(text) == MaxOrNone(PatternStarts(text, TOOL_CALL_PATTERNS))

\* find_first_tool_call_start looking for the first pattern only
find_first_compact_start(text) == MinOrNone(Occurrences(text, TOOL_CALL_PATTERNS[1]))

\* the loop keeps the smallest of the per-pattern find results: the first
\* offset at which any pattern starts
find_first_tool_call_start(text) == MinOrNone(PatternStarts(text, TOOL_CALL_PATTERNS))

\* args is the payload of a JSON object: a function from keys to values
args_contain_prose_fragments(args) ==
    \E key \in DOMAIN args :
        \/ Len(key) > MaxKeyLen
        \/ contains(key, <<"\n">>)
        \/ \E marker \in PROSE_MARKERS : contains(key, marker)

RECURSIVE JsonEndScan(_, _, _, _, _, _)
\* the loop of find_complete_json_object_end with the backslash an ordinary
\* character
JsonEndScanNoEscape(text, i, brace_count, in_string, escape_next, found_start) ==
    CASE i >= Len(text) -> None
      [] i < Len(text) /\ text[i + 1] = "\"" ->
             JsonEndScan(text, i + 1, brace_count, ~in_string, FALSE, found_start)
      [] i < Len(text) /\ text[i + 1] = "{" /\ ~in_string ->
             JsonEndScan(text, i + 1, brace_count + 1, in_string, FALSE, TRUE)
      [] i < Len(text) /\ text[i + 1] = "}" /\ ~in_string
             /\ brace_count - 1 = 0 /\ found_start ->
             Some(i)
      [] i < Len(text) /\ text[i + 1] = "}" /\ ~in_string
             /\ ~(brace_count - 1 = 0 /\ found_start) ->
             JsonEndScan(text, i + 1, brace_count - 1, in_string, FALSE, found_start)
      [] OTHER -> JsonEndScan(text, i + 1, brace_count, in_string, FALSE, found_start)

\* the loop of find_complete_json_object_end from offset i on
JsonEndScan(text, i, brace_count, in_string, escape_next, found_start) ==
    CASE i >= Len(text) -> None
      [] i < Len(text) /\ escape_next ->
             JsonEndScan(text, i + 1, brace_count, in_string, FALSE, found_start)
      [] i < Len(text) /\ ~escape_next /\ text[i + 1] = "\\" ->
             JsonEndScan(text, i + 1, brace_count, in_string, TRUE, found_start)
      [] i < Len(text) /\ ~escape_next /\ text[i + 1] = "\"" ->
             JsonEndScan(text, i + 1, brace_count, ~in_string, FALSE, found_start)
      [] i < Len(text) /\ ~escape_next /\ text[i + 1] = "{" /\ ~in_string ->
             JsonEndScan(text, i + 1, brace_count + 1, in_string, FALSE, TRUE)
      [] i < Len(text) /\ ~escape_next /\ text[i + 1] = "}" /\ ~in_string
             /\ brace_count - 1 = 0 /\ found_start ->
             Some(i)
      [] i < Len(text) /\ ~escape_next /\ text[i + 1] = "}" /\ ~in_string
             /\ ~(brace_count - 1 = 0 /\ found_start) ->
             JsonEndScan(text, i + 1, brace_count - 1, in_string, FALSE, found_start)
      [] OTHER -> JsonEndScan(text, i + 1, brace_count, in_string, FALSE, found_start)

\* find_complete_json_object_end as text.rfind('}')
find_complete_json_object_end_last(text) == MaxOrNone(Occurrences(text, <<"}">>))

find_complete_json_object_end(text) == JsonEndScan(text, 0, 0, FALSE, FALSE, FALSE)

\* chars().take_while(|c| !c.is_whitespace() && *c != '>')
RECURSIVE take_while_tag_name(_)
take_while_tag_name(text) ==
    IF text # <<>> /\ ~is_whitespace(Head(text)) /\ Head(text) # ">"
    THEN <<Head(text)>> \o take_while_tag_name(Tail(text))
    ELSE <<>>

\* find_complete_xml_element_end, from the innermost step outwards
\* close_pos == text.find(&closing_tag)
xml_element_close(closing_tag, close_pos) ==
    IF IsSome(close_pos) THEN Some(Unwrap(close_pos) + Len(closing_tag)) ELSE None
\* xml_element_closing_tag that looks for the last closing tag of the text
xml_element_closing_tag_last(text, closing_tag) ==
    xml_element_close(closing_tag, MaxOrNone(Occurrences(text, closing_tag)))

\* closing_tag == format!("</{}>", tag_name)
xml_element_closing_tag(text, closing_tag) ==
    xml_element_close(closing_tag, find(text, closing_tag))
xml_element_tag_name(text, tag_name) ==
    IF StartsWithAt(tag_name, <<"/">>, 0) THEN None
    ELSE xml_element_closing_tag(text, <<"<", "/">> \o tag_name \o <<">">>)
\* tag_end == text[start_pos + 1..].find('>')
xml_element_tag_end(text, start_pos, tag_end) ==
    IF ~IsSome(tag_end) THEN None
    ELSE xml_element_tag_name(text,
             take_while_tag_name(Slice(text, start_pos + 1, Unwrap(tag_end) + start_pos + 1)))
\* start_pos == text.find('<')
xml_element_start(text, start_pos) ==
    IF ~IsSome(start_pos) THEN None
    ELSE xml_element_tag_end(text, Unwrap(start_pos),
                             find(SliceFrom(text, Unwrap(start_pos) + 1), <<">">>))
find_complete_xml_element_end(text) == xml_element_start(text, find(text, <<"<">>))

CommandKey == <<"c", "o", "m", "m", "a", "n", "d">>
\* serde_json::json!({"command": text})
CommandArgs(text) == JObject(MapInsert(EmptyMap, CommandKey, JString(text)))
\* serde_json::json!({})
EmptyArgs == JObject(EmptyMap)

\* json_args == serde_json::from_str::<Value>(&cleaned_content)
args_from_json(cleaned_content, json_args) ==
    IF IsSome(json_args) THEN Unwrap(json_args) ELSE CommandArgs(trim(cleaned_content))
args_from_cleaned_content(cleaned_content) ==
    args_from_json(cleaned_content, from_str_Value(cleaned_content))
\* args_from_content without the replacement of newlines and double spaces
args_from_trimmed_content(content) == args_from_cleaned_content(trim(content))

\* content.trim().replace("\n", " ").replace("  ", " "), parsed as JSON, or else
\* wrapped as the command
args_from_content(content) ==
    args_from_cleaned_content(
        replace(replace(trim(content), <<"\n">>, <<" ">>), <<" ", " ">>, <<" ">>))

NameAttr == <<"n", "a", "m", "e", "=", "\"">>
ParamArgsOpen == <<"<", "p", "a", "r", "a", "m", "e", "t", "e", "r", " ", "n", "a", "m", "e", "=", "\"", "a", "r", "g", "s", "\"", ">">>
ParamClose == <<"<", "/", "p", "a", "r", "a", "m", "e", "t", "e", "r", ">">>
TagClose == <<"<", "/">>

\* start is past 'name="'; end == xml_str[start..].find('"')
xml_tool_name_end(xml_str, start, end) ==
    IF ~IsSome(end) THEN None ELSE Some(Slice(xml_str, start, start + Unwrap(end)))
\* start == xml_str.find("name=\"")
xml_tool_name_start(xml_str, start) ==
    IF ~IsSome(start) THEN None
    ELSE xml_tool_name_end(xml_str, Unwrap(start) + Len(NameAttr),
                           find(SliceFrom(xml_str, Unwrap(start) + Len(NameAttr)), <<"\"">>))
\* the tool name of parse_xml_tool_call: None where the code returns None early
xml_tool_name(xml_str) ==
    IF contains(xml_str, XML_TOOL_CALL_PATTERNS[1]) \/ contains(xml_str, XML_TOOL_CALL_PATTERNS[3])
    THEN xml_tool_name_start(xml_str, find(xml_str, NameAttr))
    ELSE None

\* content_end == xml_str[content_start..].find(closing)
xml_args_content_end(xml_str, content_start, content_end) ==
    IF IsSome(content_end)
    THEN args_from_content(Slice(xml_str, content_start, content_start + Unwrap(content_end)))
    ELSE EmptyArgs
xml_args_content(xml_str, content_start, closing) ==
    xml_args_content_end(xml_str, content_start, find(SliceFrom(xml_str, content_start), closing))
\* args_param == xml_str.find("<parameter name=\"args\">"),
\* simple_content == xml_str.find('>'): both branches read the content alike,
\* from their own start up to their own closing text
xml_args_branch(xml_str, args_param, simple_content) ==
    IF ~IsSome(args_param) /\ ~IsSome(simple_content) THEN EmptyArgs
    ELSE xml_args_content(xml_str,
             IF IsSome(args_param)
             THEN Unwrap(args_param) + Len(ParamArgsOpen)
             ELSE Unwrap(simple_content) + 1,
             IF IsSome(args_param) THEN ParamClose ELSE TagClose)
\* the args of parse_xml_tool_call
xml_args(xml_str) ==
    xml_args_branch(xml_str, find(xml_str, ParamArgsOpen), find(xml_str, <<">">>))

xml_tool_call_named(xml_str, tool_name) ==
    IF ~IsSome(tool_name) THEN None
    ELSE IF Unwrap(tool_name) = <<>> THEN None
    ELSE Some([tool |-> Unwrap(tool_name), args |-> xml_args(xml_str)])
parse_xml_tool_call(xml_str) == xml_tool_call_named(xml_str, xml_tool_name(xml_str))

\* the while loop of try_parse_xml_tool_calls_from_text for one pattern
RECURSIVE XmlScanPattern(_, _, _)
\* xml_end == find_complete_xml_element_end(&text[actual_pos..])
XmlScanElement(text, actual_pos, xml_end) ==
    IF IsSome(xml_end)
    THEN parse_xml_tool_call(Slice(text, actual_pos, actual_pos + Unwrap(xml_end)))
    ELSE None
\* XmlScanAt that leaves the loop after one element
XmlScanAtOnce(text, pattern, actual_pos) ==
    XmlScanElement(text, actual_pos, find_complete_xml_element_end(SliceFrom(text, actual_pos)))

XmlScanAt(text, pattern, actual_pos) ==
    XmlScanElement(text, actual_pos, find_complete_xml_element_end(SliceFrom(text, actual_pos)))
        \o XmlScanPattern(text, pattern, actual_pos + 1)
\* pos == text[start..].find(pattern)
XmlScanFound(text, pattern, start, pos) ==
    IF ~IsSome(pos) THEN <<>> ELSE XmlScanAt(text, pattern, start + Unwrap(pos))
XmlScanPattern(text, pattern, start) ==
    XmlScanFound(text, pattern, start, find(SliceFrom(text, start), pattern))
\* the for loop over XML_TOOL_CALL_PATTERNS, from pattern k on
RECURSIVE XmlScanPatterns(_, _)
XmlScanPatterns(text, k) ==
    IF k > Len(XML_TOOL_CALL_PATTERNS) THEN <<>>
    ELSE XmlScanPattern(text, XML_TOOL_CALL_PATTERNS[k], 0) \o XmlScanPatterns(text, k + 1)

try_parse_xml_tool_calls_from_text(text) == XmlScanPatterns(text, 1)

\* JsonScanToolCall without the check of the name
JsonScanToolCallUnchecked(tool_call) == tool_call

\* the while loop of try_parse_json_tool_calls_from_text for one pattern
RECURSIVE JsonScanPattern(_, _, _)
\* tool_call == serde_json::from_str::<ToolCall>(json_str): only the name is checked
JsonScanToolCall(tool_call) ==
    IF IsSome(tool_call) /\ Unwrap(tool_call).tool # <<>> THEN tool_call ELSE None
\* json_end == find_complete_json_object_end(&text[actual_pos..])
JsonScanObject(text, actual_pos, json_end) ==
    IF IsSome(json_end)
    THEN JsonScanToolCall(
             from_str_ToolCall(Slice(text, actual_pos, actual_pos + Unwrap(json_end) + 1)))
    ELSE None
JsonScanAt(text, pattern, actual_pos) ==
    JsonScanObject(text, actual_pos, find_complete_json_object_end(SliceFrom(text, actual_pos)))
        \o JsonScanPattern(text, pattern, actual_pos + 1)
\* JsonScanFound that accepts a pattern only at the start of the text searched
JsonScanFoundAtStart(text, pattern, start, pos) ==
    IF IsSome(pos) /\ Unwrap(pos) = 0 THEN JsonScanAt(text, pattern, start) ELSE <<>>

\* pos == text[start..].find(pattern)
JsonScanFound(text, pattern, start, pos) ==
    IF ~IsSome(pos) THEN <<>> ELSE JsonScanAt(text, pattern, start + Unwrap(pos))
JsonScanPattern(text, pattern, start) ==
    JsonScanFound(text, pattern, start, find(SliceFrom(text, start), pattern))
\* the for loop over TOOL_CALL_PATTERNS, from pattern k on
RECURSIVE JsonScanPatterns(_, _)
JsonScanPatterns(text, k) ==
    IF k > Len(TOOL_CALL_PATTERNS) THEN <<>>
    ELSE JsonScanPattern(text, TOOL_CALL_PATTERNS[k], 0) \o JsonScanPatterns(text, k + 1)

try_parse_json_tool_calls_from_text(text) == JsonScanPatterns(text, 1)

\* the checks of try_parse_json_tool_call and of the bulk scan on a parsed
\* candidate: named, with object args free of prose keys
accepted_tool_call(tool_call) ==
    IF /\ IsSome(tool_call)
       /\ Unwrap(tool_call).tool # <<>>
       /\ is_object(Unwrap(tool_call).args)
       /\ ~args_contain_prose_fragments(Unwrap(tool_call).args.v)
    THEN tool_call
    ELSE None
\* the tool call accepted from a complete JSON span
valid_json_tool_call(json_str) == accepted_tool_call(from_str_ToolCall(json_str))

\* the while loop of try_parse_all_json_tool_calls_from_buffer
RECURSIVE BulkJsonScan(_, _)
\* BulkJsonEnd resuming one character past the opening, inside the object
BulkJsonEndInside(text_buffer, abs_start, json_text, end_pos) ==
    IF ~IsSome(end_pos) THEN <<>>
    ELSE valid_json_tool_call(Slice(json_text, 0, Unwrap(end_pos) + 1))
             \o BulkJsonScan(text_buffer, abs_start + 1)

\* BulkJsonEnd ending the scan at a candidate that is rejected
BulkJsonEndAtRejected(text_buffer, abs_start, json_text, end_pos) ==
    IF ~IsSome(end_pos) THEN <<>>
    ELSE IF ~IsSome(valid_json_tool_call(Slice(json_text, 0, Unwrap(end_pos) + 1))) THEN <<>>
    ELSE valid_json_tool_call(Slice(json_text, 0, Unwrap(end_pos) + 1))
             \o BulkJsonScan(text_buffer, abs_start + Unwrap(end_pos) + 1)

\* end_pos == find_complete_json_object_end(json_text): the scan stops at the
\* first candidate that is not complete
BulkJsonEnd(text_buffer, abs_start, json_text, end_pos) ==
    IF ~IsSome(end_pos) THEN <<>>
    ELSE valid_json_tool_call(Slice(json_text, 0, Unwrap(end_pos) + 1))
             \o BulkJsonScan(text_buffer, abs_start + Unwrap(end_pos) + 1)
BulkJsonText(text_buffer, abs_start, json_text) ==
    BulkJsonEnd(text_buffer, abs_start, json_text, find_complete_json_object_end(json_text))
\* relative_pos == find_first_tool_call_start(search_text)
BulkJsonStart(text_buffer, search_start, relative_pos) ==
    IF ~IsSome(relative_pos) THEN <<>>
    ELSE BulkJsonText(text_buffer, search_start + Unwrap(relative_pos),
                      SliceFrom(text_buffer, search_start + Unwrap(relative_pos)))
BulkJsonScan(text_buffer, search_start) ==
    IF search_start >= Len(text_buffer) THEN <<>>
    ELSE BulkJsonStart(text_buffer, search_start,
                       find_first_tool_call_start(SliceFrom(text_buffer, search_start)))

\* the spans of the calls that the while loop of
\* try_parse_all_json_tool_calls_from_buffer pushes, in order, as pairs
\* <<abs_start, abs_start + end_pos + 1>>
RECURSIVE BulkJsonSpans(_, _)
\* end_pos == find_complete_json_object_end(&self.text_buffer[abs_start..])
BulkSpanEnd(text_buffer, abs_start, end_pos) ==
    IF ~IsSome(end_pos) THEN <<>>
    ELSE (IF IsSome(valid_json_tool_call(
                        Slice(text_buffer, abs_start, abs_start + Unwrap(end_pos) + 1)))
          THEN << <<abs_start, abs_start + Unwrap(end_pos) + 1>> >>
          ELSE <<>>)
             \o BulkJsonSpans(text_buffer, abs_start + Unwrap(end_pos) + 1)
\* relative_pos == find_first_tool_call_start(search_text)
BulkSpanStart(text_buffer, search_start, relative_pos) ==
    IF ~IsSome(relative_pos) THEN <<>>
    ELSE BulkSpanEnd(text_buffer, search_start + Unwrap(relative_pos),
                     find_complete_json_object_end(
                         SliceFrom(text_buffer, search_start + Unwrap(relative_pos))))
BulkJsonSpans(text_buffer, search_start) ==
    IF search_start >= Len(text_buffer) THEN <<>>
    ELSE BulkSpanStart(text_buffer, search_start,
                       find_first_tool_call_start(SliceFrom(text_buffer, search_start)))

\* try_parse_all_json_tool_calls_from_buffer that starts at the cursor
try_parse_all_json_tool_calls_from_cursor(self) ==
    BulkJsonScan(self.text_buffer, self.last_consumed_position)

try_parse_all_json_tool_calls_from_buffer(self) == BulkJsonScan(self.text_buffer, 0)

(***************************************************************************)
(* StreamingToolParser: the methods.  self is the record of the fields; a  *)
(* &mut self method yields [self |-> the fields after the call, out |->    *)
(* the value returned].  Two more fields of a result are not values of the *)
(* code: via names the branch that produced the calls, and span is the     *)
(* pair of offsets [start, end) of text_buffer that the JSON fallback read *)
(* its call from (None on every other branch).                             *)
(***************************************************************************)
\* StreamingToolParser::new
new == [text_buffer |-> <<>>,
        last_consumed_position |-> 0,
        message_stopped |-> FALSE,
        in_json_tool_call |-> FALSE,
        json_tool_start |-> None]

InvokeNameOpen == <<"<", "i", "n", "v", "o", "k", "e", " ", "n", "a", "m", "e", "=", "\"">>

\* xml_consumed_at with the length of the tail added, not subtracted
xml_consumed_past_end(self, current_buffer, pos) ==
    IF IsSome(pos)
    THEN Len(self.text_buffer) + Len(current_buffer) + Unwrap(pos) + 1
    ELSE self.last_consumed_position

\* xml_consumed_at with the offset taken in the tail, not in the buffer
xml_consumed_in_tail(self, current_buffer, pos) ==
    IF IsSome(pos) THEN Unwrap(pos) + 1 ELSE self.last_consumed_position

\* pos == current_buffer.find(&format!("<invoke name=\"{}\"", tool_call.tool))
xml_consumed_at(self, current_buffer, pos) ==
    IF IsSome(pos)
    THEN Len(self.text_buffer) - Len(current_buffer) + Unwrap(pos) + 1
    ELSE self.last_consumed_position
\* the cursor after the fallback returns the XML call tool_call found in
\* current_buffer: the cursor moves one past the start of its opening text
xml_consumed_position(self, current_buffer, tool_call) ==
    xml_consumed_at(self, current_buffer,
                    find(current_buffer, InvokeNameOpen \o tool_call.tool \o <<"\"">>))

\* the text the JSON fallback searches for the opening of a new candidate
json_candidate_text(self) == self.text_buffer

\* json_fallback_parsed that drops the candidate only when it is accepted
json_fallback_parsed_kept(self, start_pos, end_pos, tool_call) ==
    [self |-> IF IsSome(tool_call)
              THEN [self EXCEPT !.in_json_tool_call = FALSE, !.json_tool_start = None]
              ELSE self,
     out |-> tool_call,
     via |-> "json_fallback",
     span |-> IF IsSome(tool_call) THEN Some(<<start_pos, start_pos + end_pos + 1>>) ELSE None]

\* json_fallback_parsed that clears the flag and keeps the offset
json_fallback_parsed_flag_only(self, start_pos, end_pos, tool_call) ==
    [self |-> [self EXCEPT !.in_json_tool_call = FALSE],
     out |-> tool_call,
     via |-> "json_fallback",
     span |-> IF IsSome(tool_call) THEN Some(<<start_pos, start_pos + end_pos + 1>>) ELSE None]

\* tool_call is the call accepted from text_buffer[start_pos..=start_pos + end_pos];
\* the candidate is dropped from the parser whether accepted or not
json_fallback_parsed(self, start_pos, end_pos, tool_call) ==
    [self |-> [self EXCEPT !.in_json_tool_call = FALSE, !.json_tool_start = None],
     out |-> tool_call,
     via |-> "json_fallback",
     span |-> IF IsSome(tool_call) THEN Some(<<start_pos, start_pos + end_pos + 1>>) ELSE None]
\* end_pos == find_complete_json_object_end(json_text)
json_fallback_end(self, start_pos, json_text, end_pos) ==
    IF IsSome(end_pos)
    THEN json_fallback_parsed(self, start_pos, Unwrap(end_pos),
                              valid_json_tool_call(Slice(json_text, 0, Unwrap(end_pos) + 1)))
    ELSE [self |-> self, out |-> None, via |-> "json_fallback", span |-> None]
json_fallback_text(self, start_pos, json_text) ==
    json_fallback_end(self, start_pos, json_text, find_complete_json_object_end(json_text))
\* lines 239-283: the candidate the parser holds is completed and parsed
json_fallback_candidate(self) ==
    IF self.in_json_tool_call /\ IsSome(self.json_tool_start)
    THEN json_fallback_text(self, Unwrap(self.json_tool_start),
                            SliceFrom(self.text_buffer, Unwrap(self.json_tool_start)))
    ELSE [self |-> self, out |-> None, via |-> "json_fallback", span |-> None]
\* lines 230-236: pos == find_last_tool_call_start, looked up only when the
\* parser holds no candidate
json_fallback_open(self, pos) ==
    json_fallback_candidate(
        IF IsSome(pos)
        THEN [self EXCEPT !.in_json_tool_call = TRUE, !.json_tool_start = pos]
        ELSE self)
\* the JSON part of try_parse_json_tool_call (lines 229-285)
json_fallback(self) ==
    json_fallback_open(self,
        IF ~self.in_json_tool_call
        THEN find_last_tool_call_start(json_candidate_text(self))
        ELSE None)

\* xml_tools == try_parse_xml_tool_calls_from_text(current_buffer)
xml_tail_fallback(self, current_buffer, xml_tools) ==
    IF xml_tools # <<>>
    THEN [self |-> [self EXCEPT !.last_consumed_position =
                        xml_consumed_position(self, current_buffer, xml_tools[1])],
          out |-> Some(xml_tools[1]),
          via |-> "xml_tail",
          span |-> None]
    ELSE json_fallback(self)
\* current_buffer == &self.text_buffer[self.last_consumed_position..]
try_parse_current_buffer(self, current_buffer) ==
    xml_tail_fallback(self, current_buffer, try_parse_xml_tool_calls_from_text(current_buffer))
try_parse_json_tool_call(self) ==
    try_parse_current_buffer(self, SliceFrom(self.text_buffer, self.last_consumed_position))

\* the native calls of a chunk that process_chunk converts: empty names skipped
RECURSIVE native_tool_calls(_)
native_tool_calls(tool_calls) ==
    IF tool_calls = <<>> THEN <<>>
    ELSE (IF Head(tool_calls).tool = <<>> THEN <<>> ELSE <<Head(tool_calls)>>)
             \o native_tool_calls(Tail(tool_calls))

\* the branch of a list of native calls
native_via(completed_tools) == IF completed_tools = <<>> THEN "none" ELSE "native"

\* end_of_stream_xml with the JSON calls added to the XML calls
end_of_stream_xml_mixed(self, xml_tools) ==
    [out |-> xml_tools \o try_parse_all_json_tool_calls_from_buffer(self), via |-> "xml_end"]

\* xml_tools == try_parse_xml_tool_calls_from_text(&self.text_buffer)
end_of_stream_xml(self, xml_tools) ==
    IF xml_tools # <<>>
    THEN [out |-> xml_tools, via |-> "xml_end"]
    ELSE [out |-> try_parse_all_json_tool_calls_from_buffer(self), via |-> "json_end"]
\* process_chunk, lines 152-178: the scan of the whole buffer at message end
end_of_stream_scan(self, completed_tools) ==
    IF completed_tools = <<>> /\ self.text_buffer # <<>>
    THEN end_of_stream_xml(self, try_parse_xml_tool_calls_from_text(self.text_buffer))
    ELSE [out |-> completed_tools, via |-> native_via(completed_tools)]

\* xml_tools == try_parse_xml_tool_calls_from_text(&chunk.content)
mid_stream_xml(self, xml_tools) ==
    IF xml_tools # <<>>
    THEN [self |-> self, out |-> xml_tools, via |-> "xml_chunk", span |-> None]
    ELSE try_parse_json_tool_call(self)
\* mid_stream_fallback without the test of the chunk's content
mid_stream_fallback_on_empty(self, chunk, completed) ==
    IF completed.out = <<>> /\ ~chunk.finished
    THEN mid_stream_xml(self, try_parse_xml_tool_calls_from_text(chunk.content))
    ELSE [self |-> self, out |-> completed.out, via |-> completed.via, span |-> None]

\* process_chunk, lines 180-192: the fallback on a chunk that is not finished
mid_stream_fallback(self, chunk, completed) ==
    IF completed.out = <<>> /\ chunk.content # <<>> /\ ~chunk.finished
    THEN mid_stream_xml(self, try_parse_xml_tool_calls_from_text(chunk.content))
    ELSE [self |-> self, out |-> completed.out, via |-> completed.via, span |-> None]

\* completed_tools after the native calls of the chunk were converted
process_chunk_natives(self, chunk, completed_tools) ==
    mid_stream_fallback(self, chunk,
        IF chunk.finished
        THEN end_of_stream_scan(self, completed_tools)
        ELSE [out |-> completed_tools, via |-> native_via(completed_tools)])
\* process_chunk_appended storing the chunk's flag instead of latching it
process_chunk_appended_unlatched(self, chunk) ==
    process_chunk_natives(
        [self EXCEPT !.message_stopped = chunk.finished],
        chunk,
        IF IsSome(chunk.tool_calls) THEN native_tool_calls(Unwrap(chunk.tool_calls)) ELSE <<>>)

\* self after the content of the chunk was appended
process_chunk_appended(self, chunk) ==
    process_chunk_natives(
        IF chunk.finished THEN [self EXCEPT !.message_stopped = TRUE] ELSE self,
        chunk,
        IF IsSome(chunk.tool_calls) THEN native_tool_calls(Unwrap(chunk.tool_calls)) ELSE <<>>)

\* process_chunk that keeps the content of a chunk with native calls out of
\* the buffer
process_chunk_text_only(self, chunk) ==
    process_chunk_appended(
        IF IsSome(chunk.tool_calls) THEN self
        ELSE [self EXCEPT !.text_buffer = self.text_buffer \o chunk.content],
        chunk)

\* chunk is [content, tool_calls: Option<Vec<ToolCall>>, finished]
process_chunk(self, chunk) ==
    process_chunk_appended([self EXCEPT !.text_buffer = self.text_buffer \o chunk.content], chunk)

\* unchecked_buffer_of without the cut at the cursor
whole_buffer_of(self) == self.text_buffer

\* the text has_incomplete_tool_call and has_unexecuted_tool_call inspect
unchecked_buffer_of(self) == SliceFrom(self.text_buffer, self.last_consumed_position)

\* start_pos == find_last_tool_call_start(unchecked_buffer)
incomplete_from(unchecked_buffer, start_pos) ==
    IF IsSome(start_pos)
    THEN ~IsSome(find_complete_json_object_end(SliceFrom(unchecked_buffer, Unwrap(start_pos))))
    ELSE FALSE
incomplete_in(unchecked_buffer) ==
    incomplete_from(unchecked_buffer, find_last_tool_call_start(unchecked_buffer))
has_incomplete_tool_call(self) == incomplete_in(unchecked_buffer_of(self))

\* json_end == find_complete_json_object_end(json_text)
unexecuted_end(json_text, json_end) ==
    IF IsSome(json_end)
    THEN IsSome(from_str_Value(Slice(json_text, 0, Unwrap(json_end) + 1)))
    ELSE FALSE
unexecuted_text(json_text) == unexecuted_end(json_text, find_complete_json_object_end(json_text))
\* start_pos == find_last_tool_call_start(unchecked_buffer)
unexecuted_from(unchecked_buffer, start_pos) ==
    IF IsSome(start_pos)
    THEN unexecuted_text(SliceFrom(unchecked_buffer, Unwrap(start_pos)))
    ELSE FALSE
\* unexecuted_in that looks at the first opening of the tail
unexecuted_in_first(unchecked_buffer) ==
    unexecuted_from(unchecked_buffer, find_first_tool_call_start(unchecked_buffer))

unexecuted_in(unchecked_buffer) ==
    unexecuted_from(unchecked_buffer, find_last_tool_call_start(unchecked_buffer))
has_unexecuted_tool_call(self) == unexecuted_in(unchecked_buffer_of(self))

mark_tool_calls_consumed(self) ==
    [self EXCEPT !.last_consumed_position = Len(self.text_buffer)]

\* reset that keeps the state of the JSON fallback
reset_keeps_fallback_state(self) ==
    [self EXCEPT !.text_buffer = <<>>,
                 !.last_consumed_position = 0,
                 !.message_stopped = FALSE]

reset(self) ==
    [self EXCEPT !.text_buffer = <<>>,
                 !.last_consumed_position = 0,
                 !.message_stopped = FALSE,
                 !.in_json_tool_call = FALSE,
                 !.json_tool_start = None]

\* str::is_char_boundary: index is the start or the end of the text, or the
\* byte at index is not a UTF-8 continuation byte
is_char_boundary(text, index) ==
    \/ index = 0
    \/ index = Len(text)
    \/ index < Len(text) /\ text[index + 1] \notin {"xA9"}

\* get_content_before_position: ok is FALSE where &self.text_buffer[..pos]
\* panics, pos being inside a character
get_content_before_position(self, pos) ==
    IF pos <= Len(self.text_buffer)
    THEN IF is_char_boundary(self.text_buffer, pos)
         THEN [ok |-> TRUE, v |-> Slice(self.text_buffer, 0, pos)]
         ELSE [ok |-> FALSE, v |-> <<>>]
    ELSE [ok |-> TRUE, v |-> self.text_buffer]

(***************************************************************************)
(* Inputs and bounds.                                                      *)
(***************************************************************************)
\* process_chunk calls between two resets
MaxChunks == 3
\* length of text_buffer
MaxBufLen == 45

\* {"tool":"s","args":
JsonOpen == <<"{", "\"", "t", "o", "o", "l", "\"", ":", "\"", "s", "\"", ",", "\"", "a", "r", "g", "s", "\"", ":">>
\* {"tool":"","args":
JsonOpenNoName == <<"{", "\"", "t", "o", "o", "l", "\"", ":", "\"", "\"", ",", "\"", "a", "r", "g", "s", "\"", ":">>
\* {}}
ObjClose == <<"{", "}", "}">>
\* {"Now":[]}}
ProseClose == <<"{", "\"", "N", "o", "w", "\"", ":", "[", "]", "}", "}">>
\* <invoke name="s">
InvokeOpen == <<"<", "i", "n", "v", "o", "k", "e", " ", "n", "a", "m", "e", "=", "\"", "s", "\"", ">">>
\* <invoke name="">
InvokeOpenNoName == <<"<", "i", "n", "v", "o", "k", "e", " ", "n", "a", "m", "e", "=", "\"", "\"", ">">>
\* </invoke>
InvokeClose == <<"<", "/", "i", "n", "v", "o", "k", "e", ">">>

\* the chunk contents the model feeds
Contents == {<<>>, JsonOpen, JsonOpenNoName, ObjClose, ProseClose,
             InvokeOpen, InvokeOpenNoName, InvokeClose}

NativeCall == [tool |-> <<"n">>, args |-> EmptyArgs]
NativeNoName == [tool |-> <<>>, args |-> EmptyArgs]
NativeStringArgs == [tool |-> <<"m">>, args |-> JString(<<"x">>)]
\* the tool_calls field of the chunks that carry native calls
NativeInputs == {Some(<<NativeNoName>>), Some(<<NativeCall, NativeNoName, NativeStringArgs>>)}
\* the content of the chunks that carry native calls
NativeContents == {<<>>, ObjClose}

\* the chunks the model feeds: [content, tool_calls, finished]
Chunks ==
    [content : Contents, tool_calls : {None}, finished : BOOLEAN]
        \cup [content : NativeContents, tool_calls : NativeInputs, finished : BOOLEAN]

NoChunk == [content |-> <<>>, tool_calls |-> None, finished |-> FALSE]

\* "shell","args":{"command":"ls -la"}}
ShellCallRest == <<"\"", "s", "h", "e", "l", "l", "\"", ",", "\"", "a", "r", "g", "s", "\"", ":", "{", "\"", "c", "o", "m", "m", "a", "n", "d", "\"", ":", "\"", "l", "s", " ", "-", "l", "a", "\"", "}", "}">>
\* the message {"tool":"shell","args":{"command":"ls -la"}} under the four openings
Messages == {TOOL_CALL_PATTERNS[k] \o ShellCallRest : k \in 1..Len(TOOL_CALL_PATTERNS)}
\* the non-finished chunks a message is split into before its finished chunk
SplitPoints == 3

\* the whole texts that SpecText feeds: the shell message under its four
\* openings, and the texts below (a character outside ASCII is the sequence of
\* its UTF-8 bytes: "xC3", "xA9" are the two bytes of U+00E9)
Texts == Messages \cup {
    \* {"tool":"shell","args":{"command":
    <<"{", "\"", "t", "o", "o", "l", "\"", ":", "\"", "s", "h", "e", "l", "l", "\"", ",", "\"", "a", "r", "g", "s", "\"", ":", "{", "\"", "c", "o", "m", "m", "a", "n", "d", "\"", ":">>,
    \* <invoke name="shell"><parameter name="args">{"command": "ls -la"}</parameter></invoke>
    <<"<", "i", "n", "v", "o", "k", "e", " ", "n", "a", "m", "e", "=", "\"", "s", "h", "e", "l", "l", "\"", ">", "<", "p", "a", "r", "a", "m", "e", "t", "e", "r", " ", "n", "a", "m", "e", "=", "\"", "a", "r", "g", "s", "\"", ">", "{", "\"", "c", "o", "m", "m", "a", "n", "d", "\"", ":", " ", "\"", "l", "s", " ", "-", "l", "a", "\"", "}", "<", "/", "p", "a", "r", "a", "m", "e", "t", "e", "r", ">", "<", "/", "i", "n", "v", "o", "k", "e", ">">>,
    \* <invoke name="shell"><parameter name="args">ls -la\n/home/user</parameter></invoke>
    <<"<", "i", "n", "v", "o", "k", "e", " ", "n", "a", "m", "e", "=", "\"", "s", "h", "e", "l", "l", "\"", ">", "<", "p", "a", "r", "a", "m", "e", "t", "e", "r", " ", "n", "a", "m", "e", "=", "\"", "a", "r", "g", "s", "\"", ">", "l", "s", " ", "-", "l", "a", "\n", "/", "h", "o", "m", "e", "/", "u", "s", "e", "r", "<", "/", "p", "a", "r", "a", "m", "e", "t", "e", "r", ">", "<", "/", "i", "n", "v", "o", "k", "e", ">">>,
    \* <invoke name="shell"><parameter name="args"> ls -la \n</parameter></invoke>
    <<"<", "i", "n", "v", "o", "k", "e", " ", "n", "a", "m", "e", "=", "\"", "s", "h", "e", "l", "l", "\"", ">", "<", "p", "a", "r", "a", "m", "e", "t", "e", "r", " ", "n", "a", "m", "e", "=", "\"", "a", "r", "g", "s", "\"", ">", " ", "l", "s", " ", "-", "l", "a", " ", "\n", "<", "/", "p", "a", "r", "a", "m", "e", "t", "e", "r", ">", "<", "/", "i", "n", "v", "o", "k", "e", ">">>,
    \* <invoke name="shell"><parameter name="args">{invalid json}</parameter></invoke>
    <<"<", "i", "n", "v", "o", "k", "e", " ", "n", "a", "m", "e", "=", "\"", "s", "h", "e", "l", "l", "\"", ">", "<", "p", "a", "r", "a", "m", "e", "t", "e", "r", " ", "n", "a", "m", "e", "=", "\"", "a", "r", "g", "s", "\"", ">", "{", "i", "n", "v", "a", "l", "i", "d", " ", "j", "s", "o", "n", "}", "<", "/", "p", "a", "r", "a", "m", "e", "t", "e", "r", ">", "<", "/", "i", "n", "v", "o", "k", "e", ">">>,
    \* <invoke name="shell"><parameter name="args">{"a":"x\ny"}</parameter></invoke>
    <<"<", "i", "n", "v", "o", "k", "e", " ", "n", "a", "m", "e", "=", "\"", "s", "h", "e", "l", "l", "\"", ">", "<", "p", "a", "r", "a", "m", "e", "t", "e", "r", " ", "n", "a", "m", "e", "=", "\"", "a", "r", "g", "s", "\"", ">", "{", "\"", "a", "\"", ":", "\"", "x", "\n", "y", "\"", "}", "<", "/", "p", "a", "r", "a", "m", "e", "t", "e", "r", ">", "<", "/", "i", "n", "v", "o", "k", "e", ">">>,
    \* <invoke name="shell"><parameter name="args">{"a":"x  y"}</parameter></invoke>
    <<"<", "i", "n", "v", "o", "k", "e", " ", "n", "a", "m", "e", "=", "\"", "s", "h", "e", "l", "l", "\"", ">", "<", "p", "a", "r", "a", "m", "e", "t", "e", "r", " ", "n", "a", "m", "e", "=", "\"", "a", "r", "g", "s", "\"", ">", "{", "\"", "a", "\"", ":", "\"", "x", " ", " ", "y", "\"", "}", "<", "/", "p", "a", "r", "a", "m", "e", "t", "e", "r", ">", "<", "/", "i", "n", "v", "o", "k", "e", ">">>,
    \* <invoke name="shell"><parameter name="args">[]</parameter></invoke>
    <<"<", "i", "n", "v", "o", "k", "e", " ", "n", "a", "m", "e", "=", "\"", "s", "h", "e", "l", "l", "\"", ">", "<", "p", "a", "r", "a", "m", "e", "t", "e", "r", " ", "n", "a", "m", "e", "=", "\"", "a", "r", "g", "s", "\"", ">", "[", "]", "<", "/", "p", "a", "r", "a", "m", "e", "t", "e", "r", ">", "<", "/", "i", "n", "v", "o", "k", "e", ">">>,
    \* <invoke name="shell"></invoke>
    <<"<", "i", "n", "v", "o", "k", "e", " ", "n", "a", "m", "e", "=", "\"", "s", "h", "e", "l", "l", "\"", ">", "<", "/", "i", "n", "v", "o", "k", "e", ">">>,
    \* <tool name="shell" command="ls -la"/>
    <<"<", "t", "o", "o", "l", " ", "n", "a", "m", "e", "=", "\"", "s", "h", "e", "l", "l", "\"", " ", "c", "o", "m", "m", "a", "n", "d", "=", "\"", "l", "s", " ", "-", "l", "a", "\"", "/", ">">>,
    \* Let me check: <tool name="shell" command="ls -la"/> the directory.
    <<"L", "e", "t", " ", "m", "e", " ", "c", "h", "e", "c", "k", ":", " ", "<", "t", "o", "o", "l", " ", "n", "a", "m", "e", "=", "\"", "s", "h", "e", "l", "l", "\"", " ", "c", "o", "m", "m", "a", "n", "d", "=", "\"", "l", "s", " ", "-", "l", "a", "\"", "/", ">", " ", "t", "h", "e", " ", "d", "i", "r", "e", "c", "t", "o", "r", "y", ".">>,
    \* <tool name="shell">ls -la</tool>
    <<"<", "t", "o", "o", "l", " ", "n", "a", "m", "e", "=", "\"", "s", "h", "e", "l", "l", "\"", ">", "l", "s", " ", "-", "l", "a", "<", "/", "t", "o", "o", "l", ">">>,
    \* {"tool":"shell","args":{}} <invoke name="ls">-la</invoke>
    <<"{", "\"", "t", "o", "o", "l", "\"", ":", "\"", "s", "h", "e", "l", "l", "\"", ",", "\"", "a", "r", "g", "s", "\"", ":", "{", "}", "}", " ", "<", "i", "n", "v", "o", "k", "e", " ", "n", "a", "m", "e", "=", "\"", "l", "s", "\"", ">", "-", "l", "a", "<", "/", "i", "n", "v", "o", "k", "e", ">">>,
    \* {"tool":"a","args":{}}{"tool":"b","args":{}}
    <<"{", "\"", "t", "o", "o", "l", "\"", ":", "\"", "a", "\"", ",", "\"", "a", "r", "g", "s", "\"", ":", "{", "}", "}", "{", "\"", "t", "o", "o", "l", "\"", ":", "\"", "b", "\"", ",", "\"", "a", "r", "g", "s", "\"", ":", "{", "}", "}">>,
    \* I can do it.
    <<"I", " ", "c", "a", "n", " ", "d", "o", " ", "i", "t", ".">>,
    \* café {"tool":"shell","args":{}}
    <<"c", "a", "f", "xC3", "xA9", " ", "{", "\"", "t", "o", "o", "l", "\"", ":", "\"", "s", "h", "e", "l", "l", "\"", ",", "\"", "a", "r", "g", "s", "\"", ":", "{", "}", "}">>,
     \* <invoke name="ls">-la</invoke> {"tool":"shell","args":{}}
     <<"<", "i", "n", "v", "o", "k", "e", " ", "n", "a", "m", "e", "=", "\"", "l", "s", "\"", ">", "-", "l", "a", "<", "/", "i", "n", "v", "o", "k", "e", ">", " ", "{", "\"", "t", "o", "o", "l", "\"", ":", "\"", "s", "h", "e", "l", "l", "\"", ",", "\"", "a", "r", "g", "s", "\"", ":", "{", "}", "}">>,
     \* {"tool":"a","args":{"tool":"b","args":{}}}
     <<"{", "\"", "t", "o", "o", "l", "\"", ":", "\"", "a", "\"", ",", "\"", "a", "r", "g", "s", "\"", ":", "{", "\"", "t", "o", "o", "l", "\"", ":", "\"", "b", "\"", ",", "\"", "a", "r", "g", "s", "\"", ":", "{", "}", "}", "}">>,
     \* {"tool":"","args":{}}{"tool":"b","args":{}}
     <<"{", "\"", "t", "o", "o", "l", "\"", ":", "\"", "\"", ",", "\"", "a", "r", "g", "s", "\"", ":", "{", "}", "}", "{", "\"", "t", "o", "o", "l", "\"", ":", "\"", "b", "\"", ",", "\"", "a", "r", "g", "s", "\"", ":", "{", "}", "}">>,
     \* {"tool":"a","args":[]}{"tool":"b","args":{}}
     <<"{", "\"", "t", "o", "o", "l", "\"", ":", "\"", "a", "\"", ",", "\"", "a", "r", "g", "s", "\"", ":", "[", "]", "}", "{", "\"", "t", "o", "o", "l", "\"", ":", "\"", "b", "\"", ",", "\"", "a", "r", "g", "s", "\"", ":", "{", "}", "}">>,
     \* {"tool":"a"}{"tool":"b","args":{}}
     <<"{", "\"", "t", "o", "o", "l", "\"", ":", "\"", "a", "\"", "}", "{", "\"", "t", "o", "o", "l", "\"", ":", "\"", "b", "\"", ",", "\"", "a", "r", "g", "s", "\"", ":", "{", "}", "}">>,
     \* {"tool":"a","args":{"Now":[]}}{"tool":"b","args":{}}
     <<"{", "\"", "t", "o", "o", "l", "\"", ":", "\"", "a", "\"", ",", "\"", "a", "r", "g", "s", "\"", ":", "{", "\"", "N", "o", "w", "\"", ":", "[", "]", "}", "}", "{", "\"", "t", "o", "o", "l", "\"", ":", "\"", "b", "\"", ",", "\"", "a", "r", "g", "s", "\"", ":", "{", "}", "}">>,
     \* { "tool":"a","args":{}}{"tool":"b","args":{}}
     <<"{", " ", "\"", "t", "o", "o", "l", "\"", ":", "\"", "a", "\"", ",", "\"", "a", "r", "g", "s", "\"", ":", "{", "}", "}", "{", "\"", "t", "o", "o", "l", "\"", ":", "\"", "b", "\"", ",", "\"", "a", "r", "g", "s", "\"", ":", "{", "}", "}">>,
     \* First <invoke name="a"><parameter name="args">x</parameter></invoke> then <invoke name="b"><parameter name="args">{}</parameter></invoke>
     <<"F", "i", "r", "s", "t", " ", "<", "i", "n", "v", "o", "k", "e", " ", "n", "a", "m", "e", "=", "\"", "a", "\"", ">", "<", "p", "a", "r", "a", "m", "e", "t", "e", "r", " ", "n", "a", "m", "e", "=", "\"", "a", "r", "g", "s", "\"", ">", "x", "<", "/", "p", "a", "r", "a", "m", "e", "t", "e", "r", ">", "<", "/", "i", "n", "v", "o", "k", "e", ">", " ", "t", "h", "e", "n", " ", "<", "i", "n", "v", "o", "k", "e", " ", "n", "a", "m", "e", "=", "\"", "b", "\"", ">", "<", "p", "a", "r", "a", "m", "e", "t", "e", "r", " ", "n", "a", "m", "e", "=", "\"", "a", "r", "g", "s", "\"", ">", "{", "}", "<", "/", "p", "a", "r", "a", "m", "e", "t", "e", "r", ">", "<", "/", "i", "n", "v", "o", "k", "e", ">">> }

(***************************************************************************)
(* The state machine: one parser and the calls of its owner.               *)
(***************************************************************************)
VARIABLES
    text_buffer, last_consumed_position, message_stopped,
    in_json_tool_call, json_tool_start,
    \* the list returned by the last call, the call, its branch, its span, its chunk
    returned, last_op, via, span, last_chunk,
    \* process_chunk calls since the parser was created or reset
    chunks,
    \* the text of the message still to be sent, and the calls returned for the
    \* message so far (used by SpecMessage and SpecSplit)
    pending, delivered

fields == <<text_buffer, last_consumed_position, message_stopped,
            in_json_tool_call, json_tool_start>>
vars == <<text_buffer, last_consumed_position, message_stopped,
          in_json_tool_call, json_tool_start, returned, last_op, via, span, last_chunk,
          chunks, pending, delivered>>

Self == [text_buffer |-> text_buffer,
         last_consumed_position |-> last_consumed_position,
         message_stopped |-> message_stopped,
         in_json_tool_call |-> in_json_tool_call,
         json_tool_start |-> json_tool_start]

Becomes(s) ==
    /\ text_buffer' = s.text_buffer
    /\ last_consumed_position' = s.last_consumed_position
    /\ message_stopped' = s.message_stopped
    /\ in_json_tool_call' = s.in_json_tool_call
    /\ json_tool_start' = s.json_tool_start

Init ==
    /\ text_buffer = new.text_buffer
    /\ last_consumed_position = new.last_consumed_position
    /\ message_stopped = new.message_stopped
    /\ in_json_tool_call = new.in_json_tool_call
    /\ json_tool_start = new.json_tool_start
    /\ returned = <<>>
    /\ last_op = "new"
    /\ via = "none"
    /\ span = None
    /\ last_chunk = NoChunk
    /\ chunks = 0
    /\ pending = <<>>
    /\ delivered = <<>>

\* r is the result of process_chunk
Processed(r) ==
    /\ Becomes(r.self)
    /\ returned' = r.out
    /\ via' = r.via
    /\ span' = r.span

\* one call of process_chunk
Process(chunk) ==
    /\ Processed(process_chunk(Self, chunk))
    /\ last_chunk' = chunk
    /\ last_op' = "process_chunk"
    /\ chunks' = chunks + 1

ProcessChunk ==
    \E chunk \in Chunks :
        /\ chunks < MaxChunks
        /\ Len(text_buffer) + Len(chunk.content) <= MaxBufLen
        /\ Process(chunk)
        /\ UNCHANGED <<pending, delivered>>

MarkToolCallsConsumed ==
    /\ Becomes(mark_tool_calls_consumed(Self))
    /\ returned' = <<>>
    /\ last_op' = "mark_tool_calls_consumed"
    /\ via' = "none"
    /\ span' = None
    /\ last_chunk' = NoChunk
    /\ UNCHANGED <<chunks, pending, delivered>>

Reset ==
    /\ Becomes(reset(Self))
    /\ returned' = <<>>
    /\ last_op' = "reset"
    /\ via' = "none"
    /\ span' = None
    /\ last_chunk' = NoChunk
    /\ chunks' = 0
    /\ UNCHANGED <<pending, delivered>>

\* the standalone scans: the owner scans the accumulated text (get_text_content)
\* after a chunk
ScanXml ==
    /\ last_op = "process_chunk"
    /\ returned' = try_parse_xml_tool_calls_from_text(text_buffer)
    /\ last_op' = "try_parse_xml_tool_calls_from_text"
    /\ via' = "none"
    /\ span' = None
    /\ last_chunk' = NoChunk
    /\ UNCHANGED <<fields, chunks, pending, delivered>>

ScanJson ==
    /\ last_op = "process_chunk"
    /\ returned' = try_parse_json_tool_calls_from_text(text_buffer)
    /\ last_op' = "try_parse_json_tool_calls_from_text"
    /\ via' = "none"
    /\ span' = None
    /\ last_chunk' = NoChunk
    /\ UNCHANGED <<fields, chunks, pending, delivered>>

Next == ProcessChunk \/ MarkToolCallsConsumed \/ Reset \/ ScanXml \/ ScanJson

Spec == Init /\ [][Next]_vars

(***************************************************************************)
(* SpecMessage: one message delivered by an owner that acknowledges every  *)
(* non-empty return with mark_tool_calls_consumed before the next chunk,   *)
(* sends no native calls and marks only the last chunk finished.           *)
(***************************************************************************)
Unacknowledged == last_op = "process_chunk" /\ returned # <<>>

Deliver ==
    \E content \in Contents :
        /\ ~message_stopped /\ ~Unacknowledged
        /\ chunks < MaxChunks
        /\ Len(text_buffer) + Len(content) <= MaxBufLen
        /\ Process([content |-> content, tool_calls |-> None, finished |-> FALSE])
        /\ delivered' = delivered \o returned'
        /\ UNCHANGED pending

Acknowledge ==
    /\ Unacknowledged
    /\ Becomes(mark_tool_calls_consumed(Self))
    /\ returned' = <<>>
    /\ last_op' = "mark_tool_calls_consumed"
    /\ via' = "none"
    /\ span' = None
    /\ last_chunk' = NoChunk
    /\ UNCHANGED <<chunks, pending, delivered>>

Finish ==
    \E content \in Contents :
        /\ ~message_stopped /\ ~Unacknowledged
        /\ Len(text_buffer) + Len(content) <= MaxBufLen
        /\ Process([content |-> content, tool_calls |-> None, finished |-> TRUE])
        /\ delivered' = delivered \o returned'
        /\ UNCHANGED pending

NextMessage == Deliver \/ Acknowledge \/ Finish

SpecMessage == Init /\ [][NextMessage]_vars

(***************************************************************************)
(* SpecSplit: the message {"tool":"shell","args":{"command":"ls -la"}}     *)
(* split at three points into four chunks, the last one finished.          *)
(***************************************************************************)
InitSplit ==
    /\ text_buffer = new.text_buffer
    /\ last_consumed_position = new.last_consumed_position
    /\ message_stopped = new.message_stopped
    /\ in_json_tool_call = new.in_json_tool_call
    /\ json_tool_start = new.json_tool_start
    /\ returned = <<>>
    /\ last_op = "new"
    /\ via = "none"
    /\ span = None
    /\ last_chunk = NoChunk
    /\ chunks = 0
    /\ pending \in Messages
    /\ delivered = <<>>

SendPart ==
    \E k \in 0..Len(pending) :
        /\ chunks < SplitPoints
        /\ Process([content |-> Slice(pending, 0, k), tool_calls |-> None, finished |-> FALSE])
        /\ pending' = SliceFrom(pending, k)
        /\ delivered' = delivered \o returned'

SendLast ==
    /\ chunks = SplitPoints
    /\ Process([content |-> pending, tool_calls |-> None, finished |-> TRUE])
    /\ pending' = <<>>
    /\ delivered' = delivered \o returned'

NextSplit == SendPart \/ SendLast

SpecSplit == InitSplit /\ [][NextSplit]_vars

(***************************************************************************)
(* SpecText: one whole text given to a fresh parser as a single chunk,     *)
(* finished or not, and then read by the standalone scans and by           *)
(* get_content_before_position.                                            *)
(***************************************************************************)
InitText ==
    /\ text_buffer = new.text_buffer
    /\ last_consumed_position = new.last_consumed_position
    /\ message_stopped = new.message_stopped
    /\ in_json_tool_call = new.in_json_tool_call
    /\ json_tool_start = new.json_tool_start
    /\ returned = <<>>
    /\ last_op = "new"
    /\ via = "none"
    /\ span = None
    /\ last_chunk = NoChunk
    /\ chunks = 0
    /\ pending \in Texts
    /\ delivered = <<>>

SendWhole ==
    \E finished \in BOOLEAN :
        /\ chunks = 0
        /\ Process([content |-> pending, tool_calls |-> None, finished |-> finished])
        /\ delivered' = returned'
        /\ UNCHANGED pending

\* via is "panic" where the call ends in a panic; the text it returns
\* otherwise is not kept
GetContentBeforePosition ==
    \E pos \in 0..(Len(text_buffer) + 1) :
        /\ last_op = "process_chunk"
        /\ via' = IF get_content_before_position(Self, pos).ok THEN "none" ELSE "panic"
        /\ returned' = <<>>
        /\ last_op' = "get_content_before_position"
        /\ span' = None
        /\ last_chunk' = NoChunk
        /\ UNCHANGED <<fields, chunks, pending, delivered>>

\* the content of the chunks that follow the text
Blank == <<" ">>

\* a further chunk, not finished, after the text was sent as a chunk that was
\* not finished either
SendMore ==
    /\ chunks \in 1..(MaxChunks - 1)
    /\ ~message_stopped
    /\ Process([content |-> Blank, tool_calls |-> None, finished |-> FALSE])
    /\ delivered' = delivered \o returned'
    /\ UNCHANGED pending

NextText == SendWhole \/ SendMore \/ ScanXml \/ ScanJson \/ GetContentBeforePosition

SpecText == InitText /\ [][NextText]_vars

(***************************************************************************)
(* The two boundary finders on their own.  The text given to a finder is   *)
(* pending; it grows by one piece per step, so that every text of up to    *)
(* the bound is reached together with each of its prefixes.  returned is   *)
(* the Option<usize> the finder gives for pending.                         *)
(***************************************************************************)
\* length of a text given to find_complete_json_object_end
MaxTextLen == 6
\* pieces of a text given to find_complete_xml_element_end
MaxPieces == 4

\* the characters find_complete_json_object_end tells apart, and one other
JsonChars == {"{", "}", "\"", "\\", "a"}
\* <a> </a> <a b> </b> <a/> x
XmlPieces ==
    { <<"<", "a", ">">>, <<"<", "/", "a", ">">>, <<"<", "a", " ", "b", ">">>,
      <<"<", "/", "b", ">">>, <<"<", "a", "/", ">">>, <<"x">> }

FindJsonObjectEnd ==
    \E ch \in JsonChars :
        /\ last_op \in {"new", "find_complete_json_object_end"}
        /\ Len(pending) < MaxTextLen
        /\ pending' = Append(pending, ch)
        /\ returned' = find_complete_json_object_end(pending')
        /\ last_op' = "find_complete_json_object_end"
        /\ chunks' = chunks + 1
        /\ UNCHANGED <<fields, via, span, last_chunk, delivered>>

FindXmlElementEnd ==
    \E piece \in XmlPieces :
        /\ last_op \in {"new", "find_complete_xml_element_end"}
        /\ chunks < MaxPieces
        /\ pending' = pending \o piece
        /\ returned' = find_complete_xml_element_end(pending')
        /\ last_op' = "find_complete_xml_element_end"
        /\ chunks' = chunks + 1
        /\ UNCHANGED <<fields, via, span, last_chunk, delivered>>

NextFinders == FindJsonObjectEnd \/ FindXmlElementEnd

SpecFinders == Init /\ [][NextFinders]_vars

(***************************************************************************)
(* Properties.                                                             *)
(***************************************************************************)
\* C1: over one message delivered to a fresh parser without native calls, only
\* the last chunk finished and every non-empty return acknowledged with
\* mark_tool_calls_consumed, each invocation of the text is returned exactly
\* once.  Every invocation starts with an opening (a JSON or an XML pattern),
\* so the calls returned over the message are no more than the openings of its
\* text: a call returned by a non-finished chunk is not returned again by the
\* finished chunk.
ExactlyOnceDelivery ==
    message_stopped =>
        Len(delivered) <= Cardinality(PatternStarts(text_buffer, TOOL_CALL_PATTERNS)
                                          \cup PatternStarts(text_buffer, XML_TOOL_CALL_PATTERNS))

\* C2: the message {"tool":"shell","args":{"command":"ls -la"}}, under any of
\* its four openings and any three split points, fed as four chunks of which
\* only the last is finished, returns exactly one call in total.
SplitYieldsOneCall == chunks = SplitPoints + 1 => Len(delivered) = 1

\* C3: every ToolCall returned by process_chunk, on any path, has args that
\* are a JSON object.
ArgsAlwaysObject ==
    last_op = "process_chunk" => \A i \in 1..Len(returned) : is_object(returned[i].args)

\* C4: no ToolCall with an empty tool identifier is returned by process_chunk
\* or by either standalone scan.
NoEmptyToolName == \A i \in 1..Len(returned) : returned[i].tool # <<>>
\* the standalone JSON scan met a complete candidate with an empty name and
\* returned nothing
EmptyNameDropped ==
    /\ last_op = "try_parse_json_tool_calls_from_text"
    /\ contains(text_buffer, JsonOpenNoName \o ObjClose)
    /\ returned = <<>>

\* C5: a JSON tool call whose args has a key with the prose-leak signature is
\* returned by no JSON extraction entry point: the mid-stream fallback, the
\* end-of-stream bulk scan, the standalone scan of all JSON matches.
ProseKeysRejected ==
    (last_op = "try_parse_json_tool_calls_from_text" \/ via \in {"json_fallback", "json_end"})
        => \A i \in 1..Len(returned) :
               ~(is_object(returned[i].args) /\ args_contain_prose_fragments(returned[i].args.v))

\* a native call that has a name
HasName(tool_call) == tool_call.tool # <<>>
\* C6: when a chunk carries native tool calls, process_chunk returns exactly
\* those of them that have a name, in their order, and nothing read from text.
NativeCallsOnly ==
    (last_op = "process_chunk" /\ IsSome(last_chunk.tool_calls))
        => returned = SelectSeq(Unwrap(last_chunk.tool_calls), HasName)

\* C7: a call returned by the mid-stream JSON fallback of a non-finished chunk
\* does not lie entirely below last_consumed_position: its text ends past the
\* cursor.
FallbackReadsUnconsumedTail ==
    (last_op = "process_chunk" /\ ~last_chunk.finished /\ IsSome(span))
        => Unwrap(span)[2] > last_consumed_position

\* C8: in every reachable state 0 <= last_consumed_position <= length of
\* text_buffer.
CursorInBounds ==
    0 <= last_consumed_position /\ last_consumed_position <= Len(text_buffer)
\* the XML fallback moved the cursor to the inside of the buffer
CursorInsideBuffer ==
    /\ via = "xml_tail"
    /\ 0 < last_consumed_position
    /\ last_consumed_position < Len(text_buffer)

\* C9: between two resets last_consumed_position never decreases: every step
\* other than reset leaves it equal or larger.
CursorNeverDecreases ==
    [][last_op' # "reset" => last_consumed_position' >= last_consumed_position]_vars
\* the XML fallback advanced a cursor that a mark had already moved
CursorAdvancedAfterMark ==
    /\ last_op = "process_chunk"
    /\ via = "xml_tail"
    /\ \E p \in Occurrences(text_buffer, InvokeNameOpen) :
           p > 0 /\ last_consumed_position = p + 1
    /\ chunks = MaxChunks

\* C10: right after mark_tool_calls_consumed both has_unexecuted_tool_call and
\* has_incomplete_tool_call are false, and has_unexecuted_tool_call is true
\* only when a JSON opening pattern starts at or after the cursor.
MarkedTextNotReflagged ==
    /\ last_op = "mark_tool_calls_consumed"
           => ~has_unexecuted_tool_call(Self) /\ ~has_incomplete_tool_call(Self)
    /\ has_unexecuted_tool_call(Self)
           => \E p \in PatternStarts(text_buffer, TOOL_CALL_PATTERNS) :
                  p >= last_consumed_position
\* a complete call appended after the mark is flagged while an opening lies
\* below the cursor
UnexecutedAfterMark ==
    /\ last_consumed_position > 0
    /\ has_unexecuted_tool_call(Self)
    /\ \E p \in PatternStarts(text_buffer, TOOL_CALL_PATTERNS) : p < last_consumed_position

\* the calls owed at the end of a stream whose buffer has the XML matches xml_tools
EndOfStreamCalls(xml_tools) ==
    IF xml_tools # <<>> THEN xml_tools ELSE BulkJsonScan(text_buffer, 0)
\* C11: a finished chunk without native calls, on a non-empty buffer, returns
\* the XML matches of the whole buffer when there is at least one, and
\* otherwise the bulk JSON scan of the whole buffer: never a mix of the two.
EndOfStreamXmlElseJson ==
    (/\ last_op = "process_chunk"
     /\ last_chunk.finished
     /\ last_chunk.tool_calls = None
     /\ text_buffer # <<>>)
        => returned = EndOfStreamCalls(try_parse_xml_tool_calls_from_text(text_buffer))
\* the buffer holds an XML call and a JSON call, and the XML call alone is returned
XmlHidesJson ==
    /\ last_op = "process_chunk"
    /\ last_chunk.finished
    /\ via = "xml_end"
    /\ BulkJsonScan(text_buffer, 0) # <<>>
    /\ Len(returned) = 1

\* the call the shell message stands for
ShellCall ==
    [tool |-> <<"s", "h", "e", "l", "l">>,
     args |-> CommandArgs(<<"l", "s", " ", "-", "l", "a">>)]
\* C12: under each of the four openings, the shell message given as one
\* finished chunk returns exactly the call shell with args {"command":"ls -la"},
\* and so does the standalone scan of all JSON matches on that text.
FourOpeningsOneCall ==
    (/\ text_buffer \in Messages
     /\ \/ last_op = "process_chunk" /\ last_chunk.finished
        \/ last_op = "try_parse_json_tool_calls_from_text")
        => returned = <<ShellCall>>
\* the opening with both spaces, read by the bulk scan of a finished chunk
SpacedOpeningParsed ==
    /\ text_buffer = TOOL_CALL_PATTERNS[4] \o ShellCallRest
    /\ last_op = "process_chunk"
    /\ last_chunk.finished
    /\ returned = <<ShellCall>>

\* the text ends inside the JSON tool-call object at its first opening
EndsInsideJsonToolCall(text) == incomplete_from(text, find_first_tool_call_start(text))
\* the text holds no XML tool-call opening
NoXmlOpening(text) == \A k \in 1..Len(XML_TOOL_CALL_PATTERNS) : ~contains(text, XML_TOOL_CALL_PATTERNS[k])
\* C13: while the text delivered by non-finished chunks ends inside a JSON
\* tool-call object that was opened and not closed, no process_chunk call has
\* returned a call and has_incomplete_tool_call() is true.
OpenJsonObjectFlagged ==
    (/\ ~message_stopped
     /\ NoXmlOpening(text_buffer)
     /\ EndsInsideJsonToolCall(text_buffer))
        => (delivered = <<>> /\ has_incomplete_tool_call(Self))

\* the first process_chunk call after new or reset gave the result r
FirstChunkGave(r) == Self = r.self /\ returned = r.out

\* C14: reset() leaves exactly the state of a new parser, whatever was
\* processed before, and the first chunk replayed after it changes the state
\* and returns as it does on a new parser.
ResetGivesNewParser ==
    /\ last_op = "reset" => (Self = new /\ returned = <<>>)
    /\ (last_op = "process_chunk" /\ chunks = 1)
           => FirstChunkGave(process_chunk(new, last_chunk))
\* reset has just run and the parser is the new one
ResetDone == last_op = "reset" /\ chunks = 0 /\ Self = new

\* C15: process_chunk with empty content, finished = false and no native
\* calls returns the empty list and changes no field, whatever the buffer
\* and the fallback state are.
EmptyChunkChangesNothing ==
    [][(last_op' = "process_chunk" /\ last_chunk' = NoChunk)
           => (returned' = <<>> /\ UNCHANGED fields)]_vars
\* the empty chunk came while an opened JSON call was waiting in the buffer
EmptyChunkWhileOpen ==
    /\ last_op = "process_chunk"
    /\ last_chunk = NoChunk
    /\ text_buffer # <<>>
    /\ in_json_tool_call
    /\ returned = <<>>

\* C20: message_stopped is true after every finished chunk, with or without
\* native calls; once true it stays true through every call other than reset;
\* it turns true only by a finished chunk, and reset sets it back to false.
MessageStoppedLatches ==
    [][/\ (last_op' = "process_chunk" /\ last_chunk'.finished) => message_stopped'
       /\ (message_stopped /\ last_op' # "reset") => message_stopped'
       /\ (~message_stopped /\ message_stopped')
              => (last_op' = "process_chunk" /\ last_chunk'.finished)
       /\ last_op' = "reset" => ~message_stopped']_vars
\* a chunk that is not finished was processed after the message had stopped
ChunkAfterStop ==
    /\ message_stopped
    /\ last_op = "process_chunk"
    /\ ~last_chunk.finished
    /\ last_chunk.content # <<>>

\* C16: no public operation ends in a fatal error, for every buffer content
\* and every input; get_content_before_position completes for any position.
NoFatalError == via # "panic"

\* <tool name="shell" command="ls -la"/>
SelfClosingShell == <<"<", "t", "o", "o", "l", " ", "n", "a", "m", "e", "=", "\"", "s", "h", "e", "l", "l", "\"", " ", "c", "o", "m", "m", "a", "n", "d", "=", "\"", "l", "s", " ", "-", "l", "a", "\"", "/", ">">>
\* C17: a self-closing <tool name="shell" command="ls -la"/> element embedded
\* in text yields exactly one call from the scan of all XML matches, with tool
\* "shell".
SelfClosingToolYieldsCall ==
    (/\ last_op = "try_parse_xml_tool_calls_from_text"
     /\ contains(text_buffer, SelfClosingShell))
        => (Len(returned) = 1 /\ returned[1].tool = <<"s", "h", "e", "l", "l">>)

\* <invoke name="shell"><parameter name="args">
InvokeArgsOpen == <<"<", "i", "n", "v", "o", "k", "e", " ", "n", "a", "m", "e", "=", "\"", "s", "h", "e", "l", "l", "\"", ">", "<", "p", "a", "r", "a", "m", "e", "t", "e", "r", " ", "n", "a", "m", "e", "=", "\"", "a", "r", "g", "s", "\"", ">">>
\* </parameter></invoke>
InvokeArgsClose == <<"<", "/", "p", "a", "r", "a", "m", "e", "t", "e", "r", ">", "<", "/", "i", "n", "v", "o", "k", "e", ">">>
\* the text is one shell invoke element with an args parameter
IsInvokeArgs(text) ==
    /\ Len(text) >= Len(InvokeArgsOpen) + Len(InvokeArgsClose)
    /\ StartsWithAt(text, InvokeArgsOpen, 0)
    /\ StartsWithAt(text, InvokeArgsClose, Len(text) - Len(InvokeArgsClose))
\* the content of the args parameter of such a text
ArgsContent(text) == Slice(text, Len(InvokeArgsOpen), Len(text) - Len(InvokeArgsClose))
\* the XML scan of the buffer has just returned the shell call with these args
XmlScanGave(args) ==
    returned = <<[tool |-> <<"s", "h", "e", "l", "l">>, args |-> args]>>
\* ls -la, newline, /home/user
TwoLineCommand == <<"l", "s", " ", "-", "l", "a", "\n", "/", "h", "o", "m", "e", "/", "u", "s", "e", "r">>
\* ls -la /home/user
OneLineCommand == <<"l", "s", " ", "-", "l", "a", " ", "/", "h", "o", "m", "e", "/", "u", "s", "e", "r">>

ParsedOrCommand(trimmed, parsed) ==
    IF IsSome(parsed) THEN Unwrap(parsed) ELSE CommandArgs(trimmed)
ParsedOrCommandOf(trimmed) == ParsedOrCommand(trimmed, from_str_Value(trimmed))
\* C19: the args of an invoke element with an args parameter are the JSON
\* value of the trimmed content when that is valid JSON, and otherwise the
\* content unchanged as {"command": content}; invalid JSON is never dropped.
ArgsParsedOrWrappedUnchanged ==
    (/\ last_op = "try_parse_xml_tool_calls_from_text"
     /\ IsInvokeArgs(text_buffer))
        => XmlScanGave(ParsedOrCommandOf(trim(ArgsContent(text_buffer))))

\* C21: text_buffer is append-only: every process_chunk call leaves it equal
\* to the old buffer followed by the chunk's content, unaltered, also for
\* chunks with native calls and finished chunks; reset empties it and no
\* other operation changes it.
TextBufferAppendOnly ==
    [][/\ last_op' = "process_chunk" => text_buffer' = text_buffer \o last_chunk'.content
       /\ last_op' = "reset" => text_buffer' = <<>>
       /\ last_op' \notin {"process_chunk", "reset"} => text_buffer' = text_buffer]_vars
\* a finished chunk with native calls has added its content to a buffer that
\* held text already
NativeContentAppended ==
    /\ last_op = "process_chunk"
    /\ last_chunk.finished
    /\ IsSome(last_chunk.tool_calls)
    /\ last_chunk.content # <<>>
    /\ Len(text_buffer) > Len(last_chunk.content)
    /\ returned # <<>>

\* {"tool":"shell","args":{}}
ShellNoArgsText == <<"{", "\"", "t", "o", "o", "l", "\"", ":", "\"", "s", "h", "e", "l", "l", "\"", ",", "\"", "a", "r", "g", "s", "\"", ":", "{", "}", "}">>
\* <invoke name="ls">-la</invoke>
InvokeLsText == <<"<", "i", "n", "v", "o", "k", "e", " ", "n", "a", "m", "e", "=", "\"", "l", "s", "\"", ">", "-", "l", "a", "<", "/", "i", "n", "v", "o", "k", "e", ">">>
\* the text holds the complete JSON call and the complete invoke element
HasJsonCallAndInvoke(text) == contains(text, ShellNoArgsText) /\ contains(text, InvokeLsText)
\* C22: on a text that holds a complete JSON tool call and a complete XML
\* invoke element, in either order, the scan of all JSON matches and the scan
\* of all XML matches each return at least one call.
EachScanFindsItsFormat ==
    (/\ HasJsonCallAndInvoke(text_buffer)
     /\ last_op \in {"try_parse_json_tool_calls_from_text",
                     "try_parse_xml_tool_calls_from_text"})
        => returned # <<>>
\* the JSON scan found the JSON call that follows the invoke element
JsonFoundAfterInvoke ==
    /\ text_buffer = InvokeLsText \o <<" ">> \o ShellNoArgsText
    /\ last_op = "try_parse_json_tool_calls_from_text"
    /\ returned = <<[tool |-> <<"s", "h", "e", "l", "l">>, args |-> EmptyArgs]>>

\* the offset of the candidate the JSON fallback inspects in buffer when it
\* runs on the parser self: the candidate held, or else the last opening
InspectedStart(self, buffer) ==
    IF self.in_json_tool_call THEN self.json_tool_start ELSE find_last_tool_call_start(buffer)
\* the candidate starting at start has its balancing close in buffer
ClosedFrom(buffer, start) ==
    /\ IsSome(start)
    /\ Unwrap(start) <= Len(buffer)
    /\ IsSome(find_complete_json_object_end(SliceFrom(buffer, Unwrap(start))))
\* C23: whenever the mid-stream JSON fallback finds the balancing close of the
\* candidate it inspects, the parser is Idle (in_json_tool_call false,
\* json_tool_start none) when process_chunk returns, whether the candidate was
\* accepted or rejected.
ClosedCandidateLeavesIdle ==
    [][(/\ last_op' = "process_chunk"
        /\ via' = "json_fallback"
        /\ ClosedFrom(text_buffer', InspectedStart(Self, text_buffer')))
           => (~in_json_tool_call' /\ json_tool_start' = None)]_vars
\* a candidate with a prose key was closed by the chunk, rejected, and the
\* parser is Idle
RejectedCandidateIdle ==
    /\ last_op = "process_chunk"
    /\ via = "json_fallback"
    /\ last_chunk.content = ProseClose
    /\ returned = <<>>
    /\ ClosedFrom(text_buffer, find_last_tool_call_start(text_buffer))
    /\ ~in_json_tool_call
    /\ json_tool_start = None

\* C24: whenever in_json_tool_call is true after a process_chunk call
\* returns, on any path, the buffer from json_tool_start onward holds no
\* balancing closing brace: an Open candidate is opened and not yet closed.
OpenCandidateNotClosed ==
    (last_op = "process_chunk" /\ in_json_tool_call)
        => ~ClosedFrom(text_buffer, json_tool_start)

\* C25: each time the mid-stream JSON fallback inspects a candidate, the
\* candidate starts at the highest offset at which a JSON opening pattern
\* starts in the buffer at that moment, also when the candidate was opened by
\* an earlier chunk.
InspectedIsLastOpening ==
    [][(/\ last_op' = "process_chunk"
        /\ via' = "json_fallback"
        /\ IsSome(InspectedStart(Self, text_buffer')))
           => InspectedStart(Self, text_buffer') = find_last_tool_call_start(text_buffer')]_vars

\* the call c is in the list out
CallIn(out, c) == \E i \in 1..Len(out) : out[i] = c
\* the object that starts at p in buffer and ends at end_pos after it is a
\* valid tool call whose balancing brace lies past the first old_len characters
ClosedPast(buffer, p, end_pos, old_len) ==
    /\ IsSome(end_pos)
    /\ p + Unwrap(end_pos) + 1 > old_len
    /\ IsSome(valid_json_tool_call(Slice(buffer, p, p + Unwrap(end_pos) + 1)))
\* that object is among the calls of out
ClosedPastIn(buffer, p, end_pos, out) ==
    CallIn(out, Unwrap(valid_json_tool_call(Slice(buffer, p, p + Unwrap(end_pos) + 1))))
\* every valid JSON tool call of buffer closed past old_len is in out
ClosedCallsIn(buffer, old_len, out) ==
    \A p \in PatternStarts(buffer, TOOL_CALL_PATTERNS) :
        ClosedPast(buffer, p, find_complete_json_object_end(SliceFrom(buffer, p)), old_len)
            => ClosedPastIn(buffer, p, find_complete_json_object_end(SliceFrom(buffer, p)), out)
\* C26: when a non-finished chunk without native calls and with non-empty
\* content appends the balancing brace of a valid JSON tool-call object, that
\* same process_chunk call returns this tool call, also when other complete or
\* truncated openings precede it in the buffer (stated for buffers without
\* XML openings).
ClosedCallReturnedAtOnce ==
    [][(/\ last_op' = "process_chunk"
        /\ ~last_chunk'.finished
        /\ last_chunk'.tool_calls = None
        /\ last_chunk'.content # <<>>
        /\ NoXmlOpening(text_buffer'))
           => ClosedCallsIn(text_buffer', Len(text_buffer), returned')]_vars

\* the text holds one XML opening and no JSON opening
OneXmlElement(text) ==
    /\ Cardinality(PatternStarts(text, XML_TOOL_CALL_PATTERNS)) = 1
    /\ PatternStarts(text, TOOL_CALL_PATTERNS) = {}
\* C27: after the mid-stream fallback has returned an XML tool call, the
\* element lies below last_consumed_position and later non-finished chunks do
\* not return it again, for <invoke name= and <tool name= elements, also when
\* the element was found inside one chunk's content: a text with one XML
\* element gives at most one call over its non-finished chunks.
XmlElementReturnedOnce ==
    (~message_stopped /\ OneXmlElement(text_buffer))
        => /\ Len(delivered) <= 1
           /\ delivered # <<>> =>
                  try_parse_xml_tool_calls_from_text(
                      SliceFrom(text_buffer, last_consumed_position)) = <<>>

\* the spans are inside the text, not empty, and each starts at or after the
\* end of the one before
SpansOrdered(spans, text) ==
    /\ \A i \in 1..Len(spans) : 0 <= spans[i][1] /\ spans[i][1] < spans[i][2] /\ spans[i][2] <= Len(text)
    /\ \A i, j \in 1..Len(spans) : i < j => spans[i][2] <= spans[j][1]
\* the calls read from the spans of text, in order
CallsOfSpans(spans, text) ==
    [i \in 1..Len(spans) |-> Unwrap(valid_json_tool_call(Slice(text, spans[i][1], spans[i][2])))]
\* the calls out are the calls of spans, which are ordered and disjoint
ReturnedFromOrderedSpans(out, spans, text) ==
    SpansOrdered(spans, text) /\ out = CallsOfSpans(spans, text)
\* C28: the calls returned by the end-of-stream bulk JSON scan come from
\* spans of the buffer that are pairwise disjoint and strictly increasing in
\* start offset: no object is returned twice and no span lies inside another.
BulkSpansDisjoint ==
    (last_op = "process_chunk" /\ last_chunk.finished /\ via = "json_end")
        => ReturnedFromOrderedSpans(returned, BulkJsonSpans(text_buffer, 0), text_buffer)
\* the scan returned the outer object alone of a text whose args hold a
\* complete tool-call object
NestedObjectReturnedOnce ==
    /\ last_op = "process_chunk"
    /\ last_chunk.finished
    /\ via = "json_end"
    /\ Cardinality(PatternStarts(text_buffer, TOOL_CALL_PATTERNS)) = 2
    /\ BulkJsonSpans(text_buffer, 0) = << <<0, Len(text_buffer)>> >>
    /\ Len(returned) = 1

\* {"tool":"","args":{}}  {"tool":"a","args":[]}  {"tool":"a"}
\* {"tool":"a","args":{"Now":[]}}: complete objects that are no valid tool
\* call, for an empty name, args that are no object, a missing field, a prose key
RejectedObjects == {
    <<"{", "\"", "t", "o", "o", "l", "\"", ":", "\"", "\"", ",", "\"", "a", "r", "g", "s", "\"", ":", "{", "}", "}">>,
    <<"{", "\"", "t", "o", "o", "l", "\"", ":", "\"", "a", "\"", ",", "\"", "a", "r", "g", "s", "\"", ":", "[", "]", "}">>,
    <<"{", "\"", "t", "o", "o", "l", "\"", ":", "\"", "a", "\"", "}">>,
    <<"{", "\"", "t", "o", "o", "l", "\"", ":", "\"", "a", "\"", ",", "\"", "a", "r", "g", "s", "\"", ":", "{", "\"", "N", "o", "w", "\"", ":", "[", "]", "}", "}">> }
\* {"tool":"b","args":{}}
ValidObject == <<"{", "\"", "t", "o", "o", "l", "\"", ":", "\"", "b", "\"", ",", "\"", "a", "r", "g", "s", "\"", ":", "{", "}", "}">>
\* the object is complete, ends at its last character, and is rejected
CompleteAndRejected(object) ==
    /\ find_complete_json_object_end(object) = Some(Len(object) - 1)
    /\ valid_json_tool_call(object) = None
\* C29: in the end-of-stream bulk JSON scan a candidate whose closing brace
\* is found and which is rejected (parse failure, empty name, args that are no
\* object, prose key) is dropped without effect on the rest: the valid
\* tool-call object that starts after its closing brace is still returned.
RejectedCandidateSkipped ==
    /\ \A object \in RejectedObjects : CompleteAndRejected(object)
    /\ (/\ last_op = "process_chunk"
        /\ last_chunk.finished
        /\ \E object \in RejectedObjects : text_buffer = object \o ValidObject)
           => returned = <<[tool |-> <<"b">>, args |-> EmptyArgs]>>
\* the object with the prose key was dropped and the call after it returned
ProseObjectSkipped ==
    /\ last_op = "process_chunk"
    /\ last_chunk.finished
    /\ via = "json_end"
    /\ text_buffer = <<"{", "\"", "t", "o", "o", "l", "\"", ":", "\"", "a", "\"", ",", "\"", "a", "r", "g", "s", "\"", ":", "{", "\"", "N", "o", "w", "\"", ":", "[", "]", "}", "}">> \o ValidObject
    /\ returned = <<[tool |-> <<"b">>, args |-> EmptyArgs]>>

\* the span <<a, b>> is one of spans
SpanIn(spans, a, b) == \E i \in 1..Len(spans) : spans[i] = <<a, b>>
\* the span <<a, b>> shares a character with one of spans
SpanOverlaps(spans, a, b) == \E i \in 1..Len(spans) : spans[i][1] < b /\ a < spans[i][2]
\* the valid complete object at p, if it overlaps no returned span, is returned
ObjectReturned(buffer, p, end_pos, spans) ==
    (/\ ClosedPast(buffer, p, end_pos, 0)
     /\ ~SpanOverlaps(spans, p, p + Unwrap(end_pos) + 1))
        => SpanIn(spans, p, p + Unwrap(end_pos) + 1)
\* every valid complete object of buffer is in spans or overlaps one of them
AllObjectsReturned(buffer, spans) ==
    \A p \in PatternStarts(buffer, TOOL_CALL_PATTERNS) :
        ObjectReturned(buffer, p, find_complete_json_object_end(SliceFrom(buffer, p)), spans)
\* C30: at end of stream with no XML match, the bulk JSON scan returns every
\* complete valid JSON tool-call object of the buffer that does not overlap a
\* returned match, including objects that follow an opening whose object was
\* never closed.
BulkScanReturnsAll ==
    (last_op = "process_chunk" /\ last_chunk.finished /\ via = "json_end")
        => AllObjectsReturned(text_buffer, BulkJsonSpans(text_buffer, 0))

\* the calls of the objects opening at the offsets starts, by increasing offset
RECURSIVE CallsByPosition(_, _)
RECURSIVE CallsFromFirst(_, _, _)
CallsByPosition(text, starts) ==
    IF starts = {} THEN <<>>
    ELSE CallsFromFirst(text, starts, CHOOSE p \in starts : \A q \in starts : p <= q)
CallsFromFirst(text, starts, p) ==
    JsonScanObject(text, p, find_complete_json_object_end(SliceFrom(text, p)))
        \o CallsByPosition(text, starts \ {p})
\* C31: the list returned by a standalone JSON scan is ordered by position in
\* the scanned text: the call whose opening starts earlier comes first, also
\* when the text mixes whitespace variants of the JSON opening.
ScanOrderedByPosition ==
    last_op = "try_parse_json_tool_calls_from_text"
        => returned = CallsByPosition(text_buffer, PatternStarts(text_buffer, TOOL_CALL_PATTERNS))

\* the character at index i of text follows a backslash that escapes it: a
\* backslash that is escaped itself escapes nothing
RECURSIVE EscapedAt(_, _)
EscapedAt(text, i) == i > 1 /\ text[i - 1] = "\\" /\ ~EscapedAt(text, i - 1)
\* the quotes before index i that toggle the string flag
TogglesBefore(text, i) == {j \in 1..(i - 1) : text[j] = "\"" /\ ~EscapedAt(text, j)}
\* the character at index i lies inside a quoted string
QuotedAt(text, i) == Cardinality(TogglesBefore(text, i)) % 2 = 1
\* the occurrences of the brace b up to index i that are counted
CountedUpTo(text, b, i) ==
    {j \in 1..i : text[j] = b /\ ~EscapedAt(text, j) /\ ~QuotedAt(text, j)}
\* the brace depth after the character at index i
DepthAfter(text, i) ==
    Cardinality(CountedUpTo(text, "{", i)) - Cardinality(CountedUpTo(text, "}", i))
\* the indexes of the counted '}' at which the depth is back to zero
BalancingCloses(text) == {i \in CountedUpTo(text, "}", Len(text)) : DepthAfter(text, i) = 0}
\* the offset of the first of them, if any
FirstBalancingClose(text) ==
    IF BalancingCloses(text) = {} THEN None
    ELSE Some((CHOOSE i \in BalancingCloses(text) : \A j \in BalancingCloses(text) : i <= j) - 1)
\* C32: for every text that begins with '{', find_complete_json_object_end
\* returns the offset of the first '}' at which the brace depth returns to zero,
\* braces inside quoted strings not counted, a quote after a backslash not
\* toggling the string flag, a backslash escaping exactly the next character;
\* it returns none exactly when the text has no such '}'.
JsonEndIsFirstBalancingClose ==
    (last_op = "find_complete_json_object_end" /\ pending[1] = "{")
        => returned = FirstBalancingClose(pending)
\* {"\}"} : the escaped brace and the quoted brace are passed over
EscapedBraceInString ==
    /\ last_op = "find_complete_json_object_end"
    /\ pending = <<"{", "\"", "\\", "}", "\"", "}">>
    /\ returned = Some(5)

\* the tag name of a text that starts at '<'
TagName(text) == take_while_tag_name(Tail(text))
\* </name>
ClosingTag(text) == <<"<", "/">> \o TagName(text) \o <<">">>
\* the offset past the first occurrence of closing_tag in text
PastFirst(text, closing_tag) ==
    IF Occurrences(text, closing_tag) = {} THEN None
    ELSE Some((CHOOSE p \in Occurrences(text, closing_tag) :
                   \A q \in Occurrences(text, closing_tag) : p <= q) + Len(closing_tag))
\* C33: given a text that starts at '<' with a tag name that does not start
\* with '/', find_complete_xml_element_end returns the offset immediately past
\* the first occurrence of the closing tag </name> in the text, and none when
\* the closing tag is absent; with a same-named element nested inside, the first
\* closing tag wins.
XmlEndIsPastFirstClosingTag ==
    (/\ last_op = "find_complete_xml_element_end"
     /\ Head(pending) = "<"
     /\ ~StartsWithAt(TagName(pending), <<"/">>, 0))
        => returned = PastFirst(pending, ClosingTag(pending))
\* <a><a></a></a> : the span ends at the inner closing tag
NestedElementEndsEarly ==
    /\ last_op = "find_complete_xml_element_end"
    /\ pending = <<"<", "a", ">", "<", "a", ">", "<", "/", "a", ">", "<", "/", "a", ">">>
    /\ returned = Some(10)

\* before is the result for the first n characters of a text and after the
\* result for the whole text: a boundary found stays, and a boundary that
\* appears lies in the part that was added
StableFrom(before, after, n) ==
    /\ IsSome(before) => after = before
    /\ (~IsSome(before) /\ IsSome(after)) => Unwrap(after) >= n
\* C38: find_complete_json_object_end is stable under appending: if it returns
\* offset i for a text t, it returns i for every extension of t; if it returns
\* none for t and offset i for an extension of t, then i is at least the length
\* of t.
JsonEndStableUnderAppending ==
    last_op = "find_complete_json_object_end"
        => \A n \in 0..Len(pending) :
               StableFrom(find_complete_json_object_end(SubSeq(pending, 1, n)), returned, n)
\* {} followed by more text that ends in '}' keeps the boundary of {}
CompleteTextExtended ==
    /\ last_op = "find_complete_json_object_end"
    /\ Len(pending) >= 4
    /\ pending[Len(pending)] = "}"
    /\ find_complete_json_object_end(SubSeq(pending, 1, 2)) = Some(1)
    /\ returned = Some(1)

\* <parameter name="args">
ParameterArgsOpen == <<"<", "p", "a", "r", "a", "m", "e", "t", "e", "r", " ", "n", "a", "m", "e", "=", "\"", "a", "r", "g", "s", "\"", ">">>
\* the offset past the first </parameter></invoke> after the opening at p
InvokeElementEnd(text, p) ==
    Min({c \in Occurrences(text, InvokeArgsClose) : c > p}) + Len(InvokeArgsClose)
\* the text is made of complete, non-nested invoke elements with an args
\* parameter, and of prose
IsInvokeSequence(text) ==
    /\ Occurrences(text, InvokeNameOpen) # {}
    /\ PatternStarts(text, XML_TOOL_CALL_PATTERNS) = Occurrences(text, InvokeNameOpen)
    /\ Cardinality(Occurrences(text, ParameterArgsOpen))
           = Cardinality(Occurrences(text, InvokeNameOpen))
    /\ Cardinality(Occurrences(text, InvokeArgsClose))
           = Cardinality(Occurrences(text, InvokeNameOpen))
    /\ \A p \in Occurrences(text, InvokeNameOpen) :
           /\ \E c \in Occurrences(text, InvokeArgsClose) : c > p
           /\ \A q \in Occurrences(text, InvokeNameOpen) :
                  p < q => InvokeElementEnd(text, p) <= q
\* the calls of the elements that open at the offsets starts, each read from
\* its own element, in order of appearance
RECURSIVE InvokeCalls(_, _)
InvokeCalls(text, starts) ==
    IF starts = {} THEN <<>>
    ELSE parse_xml_tool_call(Slice(text, Min(starts), InvokeElementEnd(text, Min(starts))))
             \o InvokeCalls(text, starts \ {Min(starts)})
\* C34: for a text made of k complete, non-nested invoke elements with an args
\* parameter, separated by prose, the standalone XML scan returns exactly k
\* calls, one per element in order of appearance, each with the tool name and
\* args of its own element.
OneCallPerInvokeElement ==
    (last_op = "try_parse_xml_tool_calls_from_text" /\ IsInvokeSequence(text_buffer))
        => /\ Len(returned) = Cardinality(Occurrences(text_buffer, InvokeNameOpen))
           /\ returned = InvokeCalls(text_buffer, Occurrences(text_buffer, InvokeNameOpen))
\* the two elements of the text with tools a and b give the calls a and b
TwoInvokeElementsScanned ==
    /\ last_op = "try_parse_xml_tool_calls_from_text"
    /\ IsInvokeSequence(text_buffer)
    /\ returned = <<[tool |-> <<"a">>, args |-> CommandArgs(<<"x">>)],
                    [tool |-> <<"b">>, args |-> EmptyArgs]>>

\* json_end is the boundary of the object that opens at offset p of tail: the
\* object is complete and syntactically valid JSON
ValidObjectAt(tail, p, json_end) ==
    /\ IsSome(json_end)
    /\ IsSome(from_str_Value(Slice(tail, p, p + Unwrap(json_end) + 1)))
\* tail holds a complete, syntactically valid JSON tool-call object
HoldsValidObject(tail) ==
    \E p \in PatternStarts(tail, TOOL_CALL_PATTERNS) :
        ValidObjectAt(tail, p, find_complete_json_object_end(SliceFrom(tail, p)))
\* C35: has_unexecuted_tool_call() is true whenever the unconsumed tail of the
\* buffer holds a complete, syntactically valid JSON tool-call object, also
\* when a later opening of the tail is still unclosed; it is false when the
\* tail holds no opening.
UnexecutedIffValidObjectInTail ==
    /\ HoldsValidObject(unchecked_buffer_of(Self)) => has_unexecuted_tool_call(Self)
    /\ PatternStarts(unchecked_buffer_of(Self), TOOL_CALL_PATTERNS) = {}
           => ~has_unexecuted_tool_call(Self)

\* C36: in every reachable state has_incomplete_tool_call() and
\* has_unexecuted_tool_call() are not both true: both look at the last JSON
\* opening of the unconsumed tail, one requires that it has no balancing close
\* and the other that it has one.
NotIncompleteAndUnexecuted ==
    ~(has_incomplete_tool_call(Self) /\ has_unexecuted_tool_call(Self))
\* in the tail a complete object is followed by an unclosed opening: the
\* call is incomplete and not unexecuted
IncompleteAfterCompleteObject ==
    /\ HoldsValidObject(unchecked_buffer_of(Self))
    /\ has_incomplete_tool_call(Self)
    /\ ~has_unexecuted_tool_call(Self)

\* C37: in every reachable state in_json_tool_call is true if and only if
\* json_tool_start holds an offset, and that offset is smaller than the buffer
\* length and is the start of a JSON opening pattern in text_buffer: the two
\* fields are set and cleared together.
CandidateFieldsAgree ==
    /\ in_json_tool_call <=> IsSome(json_tool_start)
    /\ IsSome(json_tool_start)
           => /\ Unwrap(json_tool_start) < Len(text_buffer)
              /\ Unwrap(json_tool_start) \in PatternStarts(text_buffer, TOOL_CALL_PATTERNS)
\* a candidate is open at an opening that is not the start of the buffer,
\* after an earlier candidate was closed
SecondCandidateOpen ==
    /\ in_json_tool_call
    /\ IsSome(json_tool_start)
    /\ Unwrap(json_tool_start) > 0
    /\ find_first_tool_call_start(text_buffer) = Some(0)

\* what a fresh parser returns for the text given as one finished chunk
WholeTextFinished(text) ==
    process_chunk(new, [content |-> text, tool_calls |-> None, finished |-> TRUE]).out
\* C39: the list returned for a finished chunk without native calls depends
\* only on the full accumulated text: whatever the chunking, the cursor and the
\* candidate state, it is the list a fresh parser returns for the same text
\* given as one finished chunk.
FinishedDependsOnTextOnly ==
    (last_op = "process_chunk" /\ last_chunk.finished /\ last_chunk.tool_calls = None)
        => returned = WholeTextFinished(text_buffer)
\* a finished chunk returns calls from a buffer that came in several chunks
\* and whose cursor was moved
FinishedAfterCursorMoved ==
    /\ last_op = "process_chunk"
    /\ last_chunk.finished
    /\ last_chunk.tool_calls = None
    /\ Len(last_chunk.content) < Len(text_buffer)
    /\ last_consumed_position > 0
    /\ returned # <<>>

====
